---- MODULE Spec2Model ----
(***************************************************************************)
(* A model of the agent orchestration and tenant resource subsystem of the *)
(* personal-assistant repository:                                          *)
(*   - MainOrchestrator.Route / handleWithTools and the tool Registry      *)
(*     (internal/agents, internal/tools),                                  *)
(*   - the tenant managers Manager and DatabaseManager (internal/tenant),  *)
(*   - the shared-database row-level-security context (TenantRepository),  *)
(*   - the memory stores PGVectorStore and SQLFallbackStore.               *)
(* Each part has its own specification over the common variables.          *)
(***************************************************************************)
EXTENDS Integers, Sequences, FiniteSets, TLC

VARIABLES
    \* ---- one orchestrator turn (MainOrchestrator.Route) ----
    pc,             \* position of the turn inside Route / handleWithTools
    text,           \* message.Text of the inbound message
    intent,         \* DetectIntent(message.Text)
    ragFailed,      \* SearchMemory returned an error during this turn
    memoryContext,  \* len(memoryContext) handed to the prompt builder
    maxIterations,  \* o.config.MaxToolCalls
    iteration,      \* loop variable of handleWithTools
    messages,       \* the transcript ([]domain.ChatMessage)
    pending,        \* tool calls of the current round not yet dispatched
    allToolResults, \* []domain.ToolInvocationResult accumulated so far
    chatCalls,      \* number of llmProvider.Chat calls made in this turn
    chatLog,        \* per Chat call: did the request carry Tools, the reply's content
    toolReplies,    \* number of Chat replies that carried >= 1 tool call
    requested,      \* number of tool calls requested by the model so far
    invoked,        \* number of tool.Invoke calls made in this turn
    cancelledAt,    \* what the turn was doing when ctx was cancelled ("none" if not)
    outcome,        \* how Route ended: none | final | partial | error | panic
    response,       \* the *domain.AgentResponse returned (Nil when none)
    \* ---- the tenant manager (Manager / DatabaseManager) ----
    mkind,          \* which manager the factory built: "yaml" | "db"
    tenantsConfig,  \* Manager.tenantsConfig (tenant ids of the loaded file)
    tenantsByID,    \* m.tenantsByID (the tenant table, as its set of ids)
    repositories,   \* m.repositories: tenant id -> handle (NoHandle if absent)
    vectorStores,   \* m.vectorStores: tenant id -> handle
    llmProviders,   \* m.llmProviders: tenant id -> ProviderManager number
    handles,        \* every repository / vector store object created so far
    pmCount,        \* number of llm.NewProviderManager calls so far
    globalDBCloses, \* number of m.globalDB.Close() calls (DatabaseManager)
    gpc,            \* per goroutine: position inside its Get* call
    gop,            \* per goroutine: which Get* it is running
    garg,           \* per goroutine: the tenantID argument
    gret,           \* per goroutine: what its last GetRepository/GetVectorStore/GetLLMProvider returned
    gpm,            \* per goroutine: providerManager local of GetLLMProvider
    mgrCalls,       \* number of manager calls (Get*, ReloadTenants, Close) started
    closeCalls,     \* number of Close calls made
    lastReload,     \* how the last ReloadTenants returned
    lastClose,      \* how the last Close returned
    \* ---- the shared database of the DatabaseManager deployment ----
    connTenant,     \* per pooled connection: its session setting app.current_tenant
    wpc,            \* per turn: position inside its tenant-scoped operation
    wop,            \* per turn: the kind of operation it is running
    wTenant,        \* per turn: the tenant the operation is issued for
    lastExec,       \* the operation that executed last, with the context in force
    \* ---- the memory store (PGVectorStore / SQLFallbackStore) ----
    backend,        \* which store the factory created: "pgvector" | "sql_fallback"
    chunks,         \* the rows of memory_chunks, indexed by id
    lastMemOp,      \* the store call made last and the rows it returned or changed
    memOps,         \* number of store calls made
    \* ---- a tool Registry on its own (internal/tools/schema.go) ----
    regTools,       \* r.tools: name -> the tool registered under it
    regSchemas,     \* r.schemas: name -> its JSON schema
    regLast,        \* the Registry call made last and what it returned
    \* ---- the memory Pipeline (StoreMemory / SearchMemory) ----
    ragPc,          \* "idle", "embed", "upsert", "done"
    ragConfig,      \* p.config: ChunkSize, ChunkOverlap
    ragText,        \* item.Text of the StoreMemory call
    ragItems,       \* items of StoreMemory not yet upserted
    ragStored,      \* the records upserted so far, in order
    ragOutcome,     \* "none", "ok", "error"
    ragHits,        \* what vectorStore.Search returned to SearchMemory
    ragResult,      \* what SearchMemory returned
    \* ---- MessageProcessor turns on the shared tool registry ----
    tpc,            \* per turn: where ProcessMessage stands
    ttenant,        \* per turn: tenant.ID of the message
    tgot,           \* per turn: llmProvider, vectorStore, repo the manager returned
    tnext,          \* per turn: index of the tool initializeToolsForTenant registers next
    procTools,      \* p.toolRegistry.tools: name -> the handles the tool was built with
    lastUse,        \* the last operation a turn issued on a handle
    procFatal,      \* the runtime stopped the process (fatal error: concurrent map ...)
    \* ---- the update_item tool on one stored record ----
    updBackend,     \* "pgvector" | "sql_fallback"
    updRow,         \* the memory_chunks row the tool is invoked for
    updLast,        \* the last invocation: its input, the row before it, its outcome
    updCalls        \* number of invocations made

loopVars == <<pc, text, intent, ragFailed, memoryContext, maxIterations,
              iteration, messages, pending, allToolResults, chatCalls, chatLog,
              toolReplies, requested, invoked, cancelledAt, outcome, response>>

tableVars == <<mkind, tenantsConfig, tenantsByID>>
cacheVars == <<repositories, vectorStores, llmProviders, handles, pmCount>>
callerVars == <<gpc, gop, garg, gret, gpm>>
adminVars == <<mgrCalls, closeCalls, lastReload, lastClose, globalDBCloses>>
mgrVars == <<tableVars, cacheVars, callerVars, adminVars>>

rlsVars == <<connTenant, wpc, wop, wTenant, lastExec>>

\* What one part's actions leave alone.
memVars == <<backend, chunks, lastMemOp, memOps>>

regVars == <<regTools, regSchemas, regLast>>
ragVars == <<ragPc, ragConfig, ragText, ragItems, ragStored, ragOutcome,
             ragHits, ragResult>>

procVars == <<tpc, ttenant, tgot, tnext, procTools, lastUse, procFatal>>
updVars == <<updBackend, updRow, updLast, updCalls>>

notLoopVars == <<mgrVars, rlsVars, memVars, regVars, ragVars, procVars, updVars>>
notMgrVars == <<loopVars, rlsVars, memVars, regVars, ragVars, procVars, updVars>>
notRlsVars == <<loopVars, mgrVars, memVars, regVars, ragVars, procVars, updVars>>
notMemVars == <<loopVars, mgrVars, rlsVars, regVars, ragVars, procVars, updVars>>
notRegVars == <<loopVars, mgrVars, rlsVars, memVars, ragVars, procVars, updVars>>
notRagVars == <<loopVars, mgrVars, rlsVars, memVars, regVars, procVars, updVars>>
notProcVars == <<loopVars, rlsVars, memVars, regVars, ragVars, updVars>>
notUpdVars == <<loopVars, mgrVars, rlsVars, memVars, regVars, ragVars, procVars>>

vars == <<loopVars, mgrVars, rlsVars, memVars, regVars, ragVars, procVars, updVars>>

Nil == [nil |-> TRUE]

\* The configured tenant ids and the goroutines calling the manager.
Tenants == {"t1", "t2"}
Callers == {"g1", "g2"}

NoHandle == 0
EmptyCache == [t \in Tenants |-> NoHandle]
NoRet == [st |-> "none", h |-> NoHandle, slow |-> FALSE]

\* The connections of the two pools opened on the central database: globalDB
\* (NewDatabaseManager) and the pool of a vector store (factory.Create with
\* db_url = m.config.DatabaseURL); the turns running concurrently.
GlobalConns == {"c1", "c2"}
StoreConns == {"s1"}
Turns == {"w1", "w2"}
NoTenant == ""

\* The shared-database variables while another part is being examined.
RlsIdle ==
    /\ connTenant = [c \in GlobalConns \cup StoreConns |-> NoTenant]
    /\ wpc = [w \in Turns |-> "idle"]
    /\ wop = [w \in Turns |-> ""]
    /\ wTenant = [w \in Turns |-> NoTenant]
    /\ lastExec = Nil

\* The inbound messages whose turns the MessageProcessor runs.
Inbound == {"m1", "m2"}

\* No message is being processed while another part is being examined.
ProcIdle ==
    /\ tpc = [m \in Inbound |-> "done"]
    /\ ttenant = [m \in Inbound |-> ""]
    /\ tgot = [m \in Inbound |-> [llm |-> "", store |-> NoHandle, repo |-> NoHandle]]
    /\ tnext = [m \in Inbound |-> 1]
    /\ procTools = << >>
    /\ lastUse = Nil
    /\ procFatal = FALSE

\* The update_item tool while another part is being examined.
UpdIdle ==
    /\ updBackend = "none"
    /\ updRow = Nil
    /\ updLast = Nil
    /\ updCalls = 0

\* The memory Pipeline while another part is being examined.
RagIdle ==
    /\ ragPc = "done"
    /\ ragConfig = [ChunkSize |-> 500, ChunkOverlap |-> 50]
    /\ ragText = << >>
    /\ ragItems = << >>
    /\ ragStored = << >>
    /\ ragOutcome = "none"
    /\ ragHits = << >>
    /\ ragResult = << >>

\* The stand-alone Registry while another part is being examined.
RegIdle ==
    /\ regTools = << >>
    /\ regSchemas = << >>
    /\ regLast = [op |-> "none"]

\* The memory store variables while another part is being examined.
MemIdle ==
    /\ backend = "none"
    /\ chunks = << >>
    /\ lastMemOp = Nil
    /\ memOps = 0

\* The manager variables while another part of the system is being examined.
MgrIdle ==
    /\ mkind = "none"
    /\ tenantsConfig = {}
    /\ tenantsByID = {}
    /\ repositories = EmptyCache
    /\ vectorStores = EmptyCache
    /\ llmProviders = EmptyCache
    /\ handles = << >>
    /\ pmCount = 0
    /\ globalDBCloses = 0
    /\ gpc = [c \in Callers |-> "idle"]
    /\ gop = [c \in Callers |-> ""]
    /\ garg = [c \in Callers |-> ""]
    /\ gret = [c \in Callers |-> NoRet]
    /\ gpm = [c \in Callers |-> NoHandle]
    /\ mgrCalls = 0
    /\ closeCalls = 0
    /\ lastReload = "none"
    /\ lastClose = "none"


(***************************************************************************)
(* Bounds of the model.                                                    *)
(***************************************************************************)
\* largest configured MaxToolCalls explored (the claim ranges over N >= 0)
MaxToolCallsBound == 2
\* tool calls the model may request over one turn
MaxTurnToolCalls == 2
\* memory hits a successful SearchMemory may return
MaxHits == 1

(***************************************************************************)
(* internal/tools/schema.go : the Registry.                                *)
(***************************************************************************)
\* A JSON value as json.Unmarshal puts it in a map[string]interface{}.
\* t is the Go dynamic type; a JSON number is a float64 of value v + frac/10.
StrVal(s) == [t |-> "string", v |-> s, frac |-> 0]
NumVal(n) == [t |-> "float64", v |-> n, frac |-> 0]

\* The schema of the one tool the registry of a turn holds here ("search":
\* required string "query", optional integer "top_k").
SearchSchema ==
    [Required |-> <<"query">>,
     Properties |-> [query |-> [Type |-> "string", Enum |-> <<>>],
                     top_k |-> [Type |-> "integer", Enum |-> <<>>]]]

\* r.tools / r.schemas at the time Route runs.
RegisteredTools == [search |-> SearchSchema]

GetSchemaExists(schemas, toolName) == toolName \in DOMAIN schemas

\* validateFieldType: "" when the value passes, else the error text's class.
validateFieldType(value, schema) ==
    LET typeOk ==
            CASE schema.Type = "string"  -> value.t = "string"
              [] schema.Type = "integer" -> value.t \in {"int", "int32", "int64", "float64"}
              [] schema.Type = "number"  -> value.t \in {"int", "int32", "int64", "float32", "float64"}
              [] schema.Type = "boolean" -> value.t = "bool"
              [] schema.Type = "array"   -> value.t = "array"
              [] schema.Type = "object"  -> value.t = "object"
              [] OTHER -> TRUE
    IN  IF ~typeOk THEN "type"
        ELSE IF Len(schema.Enum) > 0
             THEN IF value.t # "string" THEN "enum_not_string"
                  ELSE IF \E i \in 1..Len(schema.Enum) : schema.Enum[i] = value.v
                       THEN "" ELSE "enum"
             ELSE ""

\* ValidateInput: "" when input is accepted, else the class of the error.
ValidateInput(schemas, toolName, input) ==
    IF ~GetSchemaExists(schemas, toolName) THEN "schema_not_found"
    ELSE LET schema == schemas[toolName]
         IN  IF \E i \in 1..Len(schema.Required) : schema.Required[i] \notin DOMAIN input
             THEN "required"
             ELSE IF \E f \in DOMAIN schema.Properties :
                        /\ f \in DOMAIN input
                        /\ validateFieldType(input[f], schema.Properties[f]) # ""
                  THEN "type"
                  ELSE ""

InvokeTool_Unchecked(schemas, toolName, input, toolOutcome) ==
    IF toolName \notin DOMAIN schemas
    THEN [ok |-> FALSE, err |-> "tool not found", invoked |-> FALSE]
    ELSE IF toolOutcome = "ok"
         THEN [ok |-> TRUE, err |-> "", invoked |-> TRUE]
         ELSE [ok |-> FALSE, err |-> "tool error", invoked |-> TRUE]

\* InvokeTool: validate, look the tool up, invoke it.  toolOutcome is what
\* tool.Invoke returns when it is reached ("ok" or "err").
InvokeTool(schemas, toolName, input, toolOutcome) ==
    LET v == ValidateInput(schemas, toolName, input)
    IN  IF v # "" THEN [ok |-> FALSE, err |-> "validation failed", invoked |-> FALSE]
        ELSE IF toolName \notin DOMAIN schemas
             THEN [ok |-> FALSE, err |-> "tool not found", invoked |-> FALSE]
             ELSE IF toolOutcome = "ok"
                  THEN [ok |-> TRUE, err |-> "", invoked |-> TRUE]
                  ELSE [ok |-> FALSE, err |-> "tool error", invoked |-> TRUE]

\* json.Unmarshal(toolCall.Function.Arguments, &args) into a
\* map[string]interface{}: a JSON object parses, the literal null parses to a
\* nil map, anything else is an error.
ParseArguments(raw) ==
    CASE raw.kind = "object" -> [ok |-> TRUE, args |-> raw.obj]
      [] raw.kind = "null"   -> [ok |-> TRUE, args |-> << >>]
      [] OTHER               -> [ok |-> FALSE, args |-> << >>]

\* ExecuteToolCall: always a result and a nil error.
ExecuteToolCall(schemas, toolCall, toolOutcome) ==
    IF toolCall.Function = Nil
    THEN [ToolName |-> "", Success |-> FALSE,
          Error |-> "tool call missing function information", invoked |-> FALSE]
    ELSE LET p == ParseArguments(toolCall.Function.Arguments)
         IN  IF ~p.ok
             THEN [ToolName |-> toolCall.Function.Name, Success |-> FALSE,
                   Error |-> "failed to parse arguments", invoked |-> FALSE]
             ELSE LET r == InvokeTool(schemas, toolCall.Function.Name, p.args, toolOutcome)
                  IN  [ToolName |-> toolCall.Function.Name, Success |-> r.ok,
                       Error |-> r.err, invoked |-> r.invoked]

(***************************************************************************)
(* The tool calls a model reply may carry (without their ids).             *)
(***************************************************************************)
Obj(o) == [kind |-> "object", obj |-> o]

ToolCallSamples ==
    { [Function |-> [Name |-> "search", Arguments |-> Obj([query |-> StrVal("milk")])]],
      [Function |-> [Name |-> "search", Arguments |-> Obj(<< >>)]],
      [Function |-> [Name |-> "search", Arguments |-> Obj([query |-> NumVal(1)])]],
      [Function |-> [Name |-> "search", Arguments |-> [kind |-> "malformed"]]],
      [Function |-> [Name |-> "nope", Arguments |-> Obj(<< >>)]],
      [Function |-> Nil] }

\* A reply's tool calls: n samples, with ids first .. first+n-1.
WithIDs(calls, first) ==
    [i \in 1..Len(calls) |-> [ID |-> first + i - 1, Function |-> calls[i].Function]]

ToolCallLists(n) == [1..n -> ToolCallSamples]

Contents == {"answer A", "answer B"}

(***************************************************************************)
(* internal/agents : intent detection and the tool gate.                   *)
(***************************************************************************)
\* Inbound texts, each with what the string functions of the code compute
\* on it: the intents of IntentKeywords having a keyword contained in the
\* lower-cased text, whether a conversationalPhrases entry is contained, and
\* len(strings.Fields(text)).
Texts ==
    { [name |-> "hi there", matches |-> {"conversational"}, phrase |-> TRUE, words |-> 2],
      [name |-> "remember to buy milk", matches |-> {"memory_store"}, phrase |-> FALSE, words |-> 4],
      [name |-> "what did I schedule", matches |-> {"memory_search", "schedule"}, phrase |-> FALSE, words |-> 4],
      [name |-> "ok save it", matches |-> {"memory_store"}, phrase |-> TRUE, words |-> 3],
      [name |-> "hello, how was your day, I had a long one today",
       matches |-> {"conversational"}, phrase |-> TRUE, words |-> 11] }

\* DetectIntent ranges over the Go map IntentKeywords, whose iteration order
\* is unspecified: any intent with a contained keyword can be returned.
DetectIntent(t) == IF t.matches = {} THEN {"conversational"} ELSE t.matches

toolRequiredIntents == {"memory_store", "memory_search", "memory_update", "api_call", "schedule"}

requiresTools_ByLength(t, in) ==
    IF t.phrase /\ t.words <= 3 THEN FALSE
    ELSE IF in \in toolRequiredIntents THEN TRUE
    ELSE t.words > 8

requiresTools(t, in) ==
    IF in = "conversational" THEN FALSE
    ELSE IF t.phrase /\ t.words <= 3 THEN FALSE
    ELSE IF in \in toolRequiredIntents THEN TRUE
    ELSE t.words > 8

\* Pipeline.SearchMemory as Route sees it: the embedding call fails, returns
\* no vector, the store search fails, or hits come back.
SearchMemoryOutcomes == {"embed_error", "no_embeddings", "search_error", "ok"}

(***************************************************************************)
(* MainOrchestrator.Route and handleWithTools, one step per external call. *)
(***************************************************************************)
Msg(role, content, toolCalls, toolCallID, name) ==
    [Role |-> role, Content |-> content, ToolCalls |-> toolCalls,
     ToolCallID |-> toolCallID, Name |-> name]

InitLoop ==
    /\ pc = "start"
    /\ text \in Texts
    /\ intent = ""
    /\ ragFailed = FALSE
    /\ memoryContext = 0
    /\ maxIterations \in 0..MaxToolCallsBound
    /\ iteration = 0
    /\ messages = << >>
    /\ pending = << >>
    /\ allToolResults = << >>
    /\ chatCalls = 0
    /\ chatLog = << >>
    /\ toolReplies = 0
    /\ requested = 0
    /\ invoked = 0
    /\ cancelledAt = "none"
    /\ outcome = "none"
    /\ response = Nil
    /\ MgrIdle
    /\ RlsIdle
    /\ MemIdle
    /\ RegIdle
    /\ RagIdle
    /\ ProcIdle
    /\ UpdIdle

\* Route, line 462: intent := DetectIntent(message.Text)
RouteDetectIntent ==
    /\ pc = "start"
    /\ \E in \in DetectIntent(text) : intent' = in
    /\ pc' = "rag"
    /\ UNCHANGED notLoopVars
    /\ UNCHANGED <<text, ragFailed, memoryContext, maxIterations, iteration,
                   messages, pending, allToolResults, chatCalls, chatLog, toolReplies,
                   requested, invoked, cancelledAt, outcome, response>>

\* A Route in which a failed search ends the turn with an error.
RagResult_Abort(o, hits) ==
    IF o = "ok"
    THEN [failed |-> FALSE, context |-> hits, next |-> "decide", outcome |-> "none"]
    ELSE [failed |-> TRUE, context |-> 0, next |-> "done", outcome |-> "error"]

\* What Route does with SearchMemory's result (lines 466-486): an error is
\* logged and the turn continues with an empty memory context.
RagResult(o, hits) ==
    IF o = "ok"
    THEN [failed |-> FALSE, context |-> hits, next |-> "decide", outcome |-> "none"]
    ELSE [failed |-> TRUE, context |-> 0, next |-> "decide", outcome |-> "none"]

RouteSearchMemory ==
    /\ pc = "rag"
    /\ \E o \in SearchMemoryOutcomes, hits \in 0..MaxHits :
          /\ (cancelledAt # "none") => o # "ok"
          /\ LET r == RagResult(o, hits)
             IN  /\ ragFailed' = r.failed
                 /\ memoryContext' = r.context
                 /\ pc' = r.next
                 /\ outcome' = r.outcome
    /\ UNCHANGED notLoopVars
    /\ UNCHANGED <<text, intent, maxIterations, iteration, messages, pending,
                   allToolResults, chatCalls, chatLog, toolReplies, requested, invoked,
                   cancelledAt, response>>

\* Route, lines 498-514: the tool gate; handleWithTools starts its transcript.
RouteDecide ==
    /\ pc = "decide"
    /\ IF requiresTools(text, intent)
       THEN /\ pc' = "loop"
            /\ messages' = << Msg("system", <<"prompt">>, << >>, 0, ""),
                              Msg("user", <<text.name>>, << >>, 0, "") >>
       ELSE /\ pc' = "conv"
            /\ UNCHANGED messages
    /\ UNCHANGED notLoopVars
    /\ UNCHANGED <<text, intent, ragFailed, memoryContext, maxIterations,
                   iteration, pending, allToolResults, chatCalls, chatLog, toolReplies,
                   requested, invoked, cancelledAt, outcome, response>>

\* handleConversationalMessage: one Chat call without tool schemas.
HandleConversationalMessage ==
    /\ pc = "conv"
    /\ chatCalls' = chatCalls + 1
    /\ pc' = "done"
    /\ \/ /\ outcome' = "error"            \* Chat error, or no choices
          /\ response' = Nil
          /\ chatLog' = Append(chatLog, [Tools |-> FALSE, Content |-> ""])
       \/ /\ cancelledAt = "none"
          /\ \E c \in Contents :
                /\ chatLog' = Append(chatLog, [Tools |-> FALSE, Content |-> c])
                /\ response' = [Text |-> c, type |-> "conversational", warning |-> "",
                                tool_results |-> << >>, iterations |-> 0]
          /\ outcome' = "final"
    /\ UNCHANGED notLoopVars
    /\ UNCHANGED <<text, intent, ragFailed, memoryContext, maxIterations,
                   iteration, messages, pending, allToolResults, toolReplies,
                   requested, invoked, cancelledAt>>

\* The loop condition of handleWithTools (line 635).
LoopContinues(it, maxIt) == it < maxIt

\* A loop that goes on after a reply without tool calls.
IsFinalReply_Never(toolCalls) == FALSE

\* Line 659: a reply without tool calls ends the loop.
IsFinalReply(toolCalls) == Len(toolCalls) = 0

\* A loop that goes on to the next round after a failed Chat call.
AfterChatError_NextRound == "loop"

\* Lines 645-652: `return nil, fmt.Errorf(...)` leaves handleWithTools.
AfterChatError == "done"

\* One llmProvider.Chat call of the loop, lines 636-670.
ChatRound ==
    /\ pc = "loop"
    /\ LoopContinues(iteration, maxIterations)
    /\ chatCalls' = chatCalls + 1
    /\ \/ /\ pc' = AfterChatError          \* Chat error, or no choices
          /\ outcome' = "error"
          /\ chatLog' = Append(chatLog, [Tools |-> TRUE, Content |-> ""])
          /\ UNCHANGED <<messages, pending, response, toolReplies, requested>>
       \/ /\ cancelledAt = "none"          \* a reply with n >= 0 tool calls
          /\ \E n \in 0..(MaxTurnToolCalls - requested) :
               \E calls \in ToolCallLists(n), c \in (IF n = 0 THEN Contents ELSE {""}) :
                  LET tcs == WithIDs(calls, requested + 1)
                  IN  /\ messages' = Append(messages, Msg("assistant", <<c>>, tcs, 0, ""))
                      /\ chatLog' = Append(chatLog, [Tools |-> TRUE, Content |-> c])
                      /\ requested' = requested + n
                      /\ toolReplies' = toolReplies + (IF n > 0 THEN 1 ELSE 0)
                      /\ pending' = tcs
                      /\ IF IsFinalReply(tcs)
                         THEN /\ response' = [Text |-> c, type |-> "tool_assisted",
                                              warning |-> "",
                                              tool_results |-> allToolResults,
                                              iterations |-> iteration + 1]
                              /\ pc' = "done"
                              /\ outcome' = "final"
                         ELSE /\ pc' = "dispatch"
                              /\ UNCHANGED <<outcome, response>>
    /\ UNCHANGED notLoopVars
    /\ UNCHANGED <<text, intent, ragFailed, memoryContext, maxIterations,
                   iteration, allToolResults, invoked, cancelledAt>>

\* The content of the tool-result message, lines 691-701.
ResultContent(result) ==
    IF result.Success THEN <<"result">> ELSE <<"Error: ", result.Error>>

\* An inner loop left after its first tool call.
RoundOver_AfterFirst(rest) == TRUE

\* `for _, toolCall := range choice.Message.ToolCalls` has no call left.
RoundOver(rest) == rest = << >>

\* One pass of the inner loop, lines 673-709.  A tool call without function
\* information gets its failed result from ExecuteToolCall, and building the
\* tool message then reads toolCall.Function.Name through the nil pointer.
DispatchToolCall ==
    /\ pc = "dispatch"
    /\ pending # << >>
    /\ \E toolOutcome \in {"ok", "err"} :
         LET toolCall == Head(pending)
             r == ExecuteToolCall(RegisteredTools, toolCall, toolOutcome)
             result == [ToolName |-> r.ToolName, Success |-> r.Success, Error |-> r.Error]
         IN  /\ allToolResults' = Append(allToolResults, result)
             /\ invoked' = invoked + (IF r.invoked THEN 1 ELSE 0)
             /\ IF toolCall.Function = Nil
                THEN /\ pc' = "done"
                     /\ outcome' = "panic"
                     /\ UNCHANGED <<messages, pending, iteration>>
                ELSE /\ messages' = Append(messages,
                            Msg("tool", ResultContent(result), << >>,
                                toolCall.ID, toolCall.Function.Name))
                     /\ pending' = Tail(pending)
                     /\ IF RoundOver(Tail(pending))
                        THEN pc' = "loop" /\ iteration' = iteration + 1
                        ELSE pc' = "dispatch" /\ UNCHANGED iteration
                     /\ UNCHANGED outcome
    /\ UNCHANGED notLoopVars
    /\ UNCHANGED <<text, intent, ragFailed, memoryContext, maxIterations,
                   chatCalls, chatLog, toolReplies, requested, cancelledAt, response>>

\* Lines 712-721: the loop ran out of iterations.
ReturnPartial ==
    /\ pc = "loop"
    /\ ~LoopContinues(iteration, maxIterations)
    /\ pc' = "done"
    /\ outcome' = "partial"
    /\ response' = [Text |-> "partial", type |-> "tool_assisted_partial",
                    warning |-> "reached_max_tool_calls",
                    tool_results |-> allToolResults, iterations |-> maxIterations]
    /\ UNCHANGED notLoopVars
    /\ UNCHANGED <<text, intent, ragFailed, memoryContext, maxIterations,
                   iteration, messages, pending, allToolResults, chatCalls, chatLog,
                   toolReplies, requested, invoked, cancelledAt>>

\* The caller cancels ctx while the turn is running.  A cancelled ctx makes
\* the provider's Chat and the embedding call fail; a tool may or may not
\* look at it.
Cancel ==
    /\ pc \notin {"start", "done"}
    /\ cancelledAt = "none"
    /\ cancelledAt' = (IF pc = "loop"
                       THEN (IF LoopContinues(iteration, maxIterations)
                             THEN "chat" ELSE "return")
                       ELSE pc)
    /\ UNCHANGED notLoopVars
    /\ UNCHANGED <<pc, text, intent, ragFailed, memoryContext, maxIterations,
                   iteration, messages, pending, allToolResults, chatCalls, chatLog,
                   toolReplies, requested, invoked, outcome, response>>

NextLoop ==
    \/ RouteDetectIntent
    \/ RouteSearchMemory
    \/ RouteDecide
    \/ HandleConversationalMessage
    \/ ChatRound
    \/ DispatchToolCall
    \/ ReturnPartial
    \/ Cancel

\* The turn variables while another part of the system is being examined.
LoopIdle ==
    /\ pc = "done"
    /\ text = [name |-> "", matches |-> {}, phrase |-> FALSE, words |-> 0]
    /\ intent = ""
    /\ ragFailed = FALSE
    /\ memoryContext = 0
    /\ maxIterations = 0
    /\ iteration = 0
    /\ messages = << >>
    /\ pending = << >>
    /\ allToolResults = << >>
    /\ chatCalls = 0
    /\ chatLog = << >>
    /\ toolReplies = 0
    /\ requested = 0
    /\ invoked = 0
    /\ cancelledAt = "none"
    /\ outcome = "none"
    /\ response = Nil

(***************************************************************************)
(* The tenant managers: Manager (manager.go, one database per tenant) and  *)
(* DatabaseManager (manager_db.go, one shared database).  Every section    *)
(* that runs under m.mutex (RLock..RUnlock or Lock..Unlock) is one step.   *)
(***************************************************************************)
\* Bound on the number of manager calls (Get*, ReloadTenants, Close).
MaxCalls == 3

\* `x, exists := cache[tenantID]`
Cached(cache, tenantID) == cache[tenantID] # NoHandle

\* A slow path that does not look at the cache again after taking the lock.
SecondCheck_Omitted(cache, tenantID) == FALSE

\* "Check again in case another goroutine created it", under m.mutex.Lock().
SecondCheck(cache, tenantID) == Cached(cache, tenantID)

\* pgxpool.New and db.Ping can fail in Manager.GetRepository; the
\* DatabaseManager only builds a TenantRepository wrapper, which cannot fail.
ConnectOutcomes(kind) ==
    IF kind = "yaml" THEN {"ok", "new_error", "ping_error"} ELSE {"ok"}

\* factory.Create(storeType, config)
FactoryOutcomes == {"ok", "error"}

NewHandle(kind, tenantID) == [kind |-> kind, tenant |-> tenantID, closes |-> 0]

\* The handles a cache holds for the given tenants.
CachedHandles(cache, ts) == {cache[t] : t \in ts} \ {NoHandle}

\* A cleanup that skips the Close() calls.
CloseHandles_Skip(hs, ids) == hs

\* repo.Close() / store.Close() on each of the handles ids.
CloseHandles(hs, ids) ==
    [h \in DOMAIN hs |-> IF h \in ids THEN [hs[h] EXCEPT !.closes = @ + 1]
                                      ELSE hs[h]]

\* A cleanup that treats every tenant of the old table as removed.
RemovedTenants_All(oldTenants, newTenants) == oldTenants

\* cleanupRemovedTenants: the ids of oldTenants that m.tenantsByID lacks.
RemovedTenants(oldTenants, newTenants) == oldTenants \ newTenants

\* delete(cache, tenantID) for each removed tenant.
Evict(cache, removed) ==
    [t \in Tenants |-> IF t \in removed THEN NoHandle ELSE cache[t]]

\* NewManager / NewDatabaseManager: the tenant table is loaded, every cache
\* is empty.  The factory picks the manager from the configuration.
InitMgr ==
    /\ mkind \in {"yaml", "db"}
    /\ tenantsConfig = (IF mkind = "yaml" THEN Tenants ELSE {})
    /\ tenantsByID = Tenants
    /\ repositories = EmptyCache
    /\ vectorStores = EmptyCache
    /\ llmProviders = EmptyCache
    /\ handles = << >>
    /\ pmCount = 0
    /\ globalDBCloses = 0
    /\ gpc = [c \in Callers |-> "idle"]
    /\ gop = [c \in Callers |-> ""]
    /\ garg = [c \in Callers |-> ""]
    /\ gret = [c \in Callers |-> NoRet]
    /\ gpm = [c \in Callers |-> NoHandle]
    /\ mgrCalls = 0
    /\ closeCalls = 0
    /\ lastReload = "none"
    /\ lastClose = "none"
    /\ LoopIdle
    /\ RlsIdle
    /\ MemIdle
    /\ RegIdle
    /\ RagIdle
    /\ ProcIdle
    /\ UpdIdle

\* A goroutine calls GetRepository, GetVectorStore or GetLLMProvider.
StartCall(c) ==
    /\ gpc[c] = "idle"
    /\ mgrCalls < MaxCalls
    /\ \E op \in {"repo", "store", "llm"}, t \in Tenants :
         /\ gop' = [gop EXCEPT ![c] = op]
         /\ garg' = [garg EXCEPT ![c] = t]
         /\ gpc' = [gpc EXCEPT ![c] = op \o "_fast"]
    /\ gret' = [gret EXCEPT ![c] = NoRet]
    /\ gpm' = [gpm EXCEPT ![c] = NoHandle]
    /\ mgrCalls' = mgrCalls + 1
    /\ UNCHANGED <<closeCalls, lastReload, lastClose, globalDBCloses>>
    /\ UNCHANGED <<tableVars, cacheVars, notMgrVars>>

\* The rest of GetLLMProvider once it has its ProviderManager and, in
\* Manager, its repository: the default provider configuration is fetched
\* and providerManager.GetProvider is asked for the provider (manager.go
\* 236-255, manager_db.go 231-258).  Each of these can fail.
ConfigOutcomes == {"ok", "err"}

\* GetRepository returns (repo, nil) or (nil, err) to its caller, which is
\* either the goroutine itself or the GetLLMProvider it is running.
RepoReturns(c, st, h, slow) ==
    /\ gpc' = [gpc EXCEPT ![c] = "idle"]
    /\ IF gop[c] = "llm" /\ st = "ok"
       THEN \E o \in ConfigOutcomes :
               gret' = [gret EXCEPT ![c] = [st |-> o,
                                            h |-> IF o = "ok" THEN gpm[c] ELSE NoHandle,
                                            slow |-> slow]]
       ELSE gret' = [gret EXCEPT ![c] = [st |-> st, h |-> h, slow |-> slow]]

\* GetRepository, the read-locked lookup (manager.go 125-131).
GetRepositoryFast(c) ==
    /\ gpc[c] = "repo_fast"
    /\ IF Cached(repositories, garg[c])
       THEN RepoReturns(c, "ok", repositories[garg[c]], FALSE)
       ELSE /\ gpc' = [gpc EXCEPT ![c] = "repo_slow"]
            /\ UNCHANGED gret
    /\ UNCHANGED <<gop, garg, gpm>>
    /\ UNCHANGED <<tableVars, cacheVars, adminVars, notMgrVars>>

\* GetRepository, the write-locked creation (manager.go 133-165,
\* manager_db.go 143-169).
GetRepositorySlow(c) ==
    /\ gpc[c] = "repo_slow"
    /\ LET t == garg[c]
       IN  IF SecondCheck(repositories, t)
           THEN /\ RepoReturns(c, "ok", repositories[t], TRUE)
                /\ UNCHANGED <<repositories, handles>>
           ELSE IF t \notin tenantsByID
           THEN /\ RepoReturns(c, "err", NoHandle, TRUE)
                /\ UNCHANGED <<repositories, handles>>
           ELSE \E o \in ConnectOutcomes(mkind) :
                   IF o = "ok"
                   THEN /\ handles' = Append(handles, NewHandle("repo", t))
                        /\ repositories' = [repositories EXCEPT ![t] = Len(handles) + 1]
                        /\ RepoReturns(c, "ok", Len(handles) + 1, TRUE)
                   ELSE /\ RepoReturns(c, "err", NoHandle, TRUE)
                        /\ UNCHANGED <<repositories, handles>>
    /\ UNCHANGED <<gop, garg, gpm>>
    /\ UNCHANGED <<vectorStores, llmProviders, pmCount>>
    /\ UNCHANGED <<tableVars, adminVars, notMgrVars>>

\* GetVectorStore, the read-locked lookup (manager.go 170-176).
GetVectorStoreFast(c) ==
    /\ gpc[c] = "store_fast"
    /\ IF Cached(vectorStores, garg[c])
       THEN /\ gret' = [gret EXCEPT ![c] = [st |-> "ok", h |-> vectorStores[garg[c]],
                                            slow |-> FALSE]]
            /\ gpc' = [gpc EXCEPT ![c] = "idle"]
       ELSE /\ gpc' = [gpc EXCEPT ![c] = "store_slow"]
            /\ UNCHANGED gret
    /\ UNCHANGED <<gop, garg, gpm>>
    /\ UNCHANGED <<tableVars, cacheVars, adminVars, notMgrVars>>

\* GetVectorStore, the write-locked creation (manager.go 178-213,
\* manager_db.go 182-217).
GetVectorStoreSlow(c) ==
    /\ gpc[c] = "store_slow"
    /\ LET t == garg[c]
       IN  IF SecondCheck(vectorStores, t)
           THEN /\ gret' = [gret EXCEPT ![c] = [st |-> "ok", h |-> vectorStores[t],
                                                slow |-> TRUE]]
                /\ UNCHANGED <<vectorStores, handles>>
           ELSE IF t \notin tenantsByID
           THEN /\ gret' = [gret EXCEPT ![c] = [st |-> "err", h |-> NoHandle, slow |-> TRUE]]
                /\ UNCHANGED <<vectorStores, handles>>
           ELSE \E o \in FactoryOutcomes :
                   IF o = "ok"
                   THEN /\ handles' = Append(handles, NewHandle("store", t))
                        /\ vectorStores' = [vectorStores EXCEPT ![t] = Len(handles) + 1]
                        /\ gret' = [gret EXCEPT ![c] = [st |-> "ok", h |-> Len(handles) + 1,
                                                        slow |-> TRUE]]
                   ELSE /\ gret' = [gret EXCEPT ![c] = [st |-> "err", h |-> NoHandle,
                                                        slow |-> TRUE]]
                        /\ UNCHANGED <<vectorStores, handles>>
    /\ gpc' = [gpc EXCEPT ![c] = "idle"]
    /\ UNCHANGED <<gop, garg, gpm>>
    /\ UNCHANGED <<repositories, llmProviders, pmCount>>
    /\ UNCHANGED <<tableVars, adminVars, notMgrVars>>

\* GetLLMProvider once providerManager is set: Manager calls m.GetRepository
\* next; DatabaseManager sets the tenant context on globalDB and finishes.
ProviderManagerSet(c, pm) ==
    /\ gpm' = [gpm EXCEPT ![c] = pm]
    /\ IF mkind = "yaml"
       THEN /\ gpc' = [gpc EXCEPT ![c] = "repo_fast"]
            /\ UNCHANGED gret
       ELSE /\ gpc' = [gpc EXCEPT ![c] = "idle"]
            /\ \E o \in (IF globalDBCloses > 0 THEN {"err"} ELSE ConfigOutcomes) :
                  gret' = [gret EXCEPT ![c] = [st |-> o,
                                               h |-> IF o = "ok" THEN pm ELSE NoHandle,
                                               slow |-> FALSE]]

\* GetLLMProvider, the read-locked lookup (manager.go 218-220).
GetLLMProviderFast(c) ==
    /\ gpc[c] = "llm_fast"
    /\ IF Cached(llmProviders, garg[c])
       THEN ProviderManagerSet(c, llmProviders[garg[c]])
       ELSE /\ gpc' = [gpc EXCEPT ![c] = "llm_slow"]
            /\ UNCHANGED <<gpm, gret>>
    /\ UNCHANGED <<gop, garg>>
    /\ UNCHANGED <<tableVars, cacheVars, adminVars, notMgrVars>>

\* GetLLMProvider, lines 222-228: a new ProviderManager is stored under the
\* write lock, whatever the cache holds by then.
GetLLMProviderSlow(c) ==
    /\ gpc[c] = "llm_slow"
    /\ pmCount' = pmCount + 1
    /\ llmProviders' = [llmProviders EXCEPT ![garg[c]] = pmCount + 1]
    /\ ProviderManagerSet(c, pmCount + 1)
    /\ UNCHANGED <<gop, garg>>
    /\ UNCHANGED <<repositories, vectorStores, handles>>
    /\ UNCHANGED <<tableVars, adminVars, notMgrVars>>

\* ReloadTenants.  Manager loads the file before taking the lock; both
\* managers then rebuild the table under the lock, restore the old table
\* when that fails and otherwise run cleanupRemovedTenants.
ReloadTenants ==
    /\ mgrCalls < MaxCalls
    /\ mgrCalls' = mgrCalls + 1
    /\ \/ /\ mkind = "yaml"               \* m.config.LoadTenants() fails
          /\ lastReload' = "load_error"
          /\ UNCHANGED <<tenantsConfig, tenantsByID, cacheVars>>
       \/ \E newTenants \in SUBSET Tenants :
            /\ tenantsConfig' = (IF mkind = "yaml" THEN newTenants ELSE tenantsConfig)
            /\ \/ /\ newTenants # {}               \* an entry fails to convert:
                  /\ lastReload' = "init_error"   \* initializeTenants fails
                  /\ UNCHANGED <<tenantsByID, cacheVars>>
               \/ LET removed == RemovedTenants(tenantsByID, newTenants)
                      closing == CachedHandles(repositories, removed)
                                    \cup CachedHandles(vectorStores, removed)
                  IN  /\ lastReload' = "ok"
                      /\ tenantsByID' = newTenants
                      /\ handles' = CloseHandles(handles, closing)
                      /\ repositories' = Evict(repositories, removed)
                      /\ vectorStores' = Evict(vectorStores, removed)
                      /\ llmProviders' = Evict(llmProviders, removed)
                      /\ UNCHANGED pmCount
    /\ UNCHANGED <<mkind, closeCalls, lastClose, globalDBCloses>>
    /\ UNCHANGED <<callerVars, notMgrVars>>

\* Close: every cached repository and vector store is closed, the three
\* caches are replaced by empty maps; DatabaseManager also closes globalDB.
\* No Close() of a handle returns an error, so errors stays empty.
Close ==
    /\ mgrCalls < MaxCalls
    /\ mgrCalls' = mgrCalls + 1
    /\ closeCalls' = closeCalls + 1
    /\ handles' = CloseHandles(handles, CachedHandles(repositories, Tenants)
                                           \cup CachedHandles(vectorStores, Tenants))
    /\ repositories' = EmptyCache
    /\ vectorStores' = EmptyCache
    /\ llmProviders' = EmptyCache
    /\ globalDBCloses' = (IF mkind = "db" THEN globalDBCloses + 1 ELSE globalDBCloses)
    /\ lastClose' = "nil"
    /\ UNCHANGED <<pmCount, lastReload>>
    /\ UNCHANGED <<tableVars, callerVars, notMgrVars>>

NextMgr ==
    \/ \E c \in Callers : StartCall(c)
    \/ \E c \in Callers : GetRepositoryFast(c)
    \/ \E c \in Callers : GetRepositorySlow(c)
    \/ \E c \in Callers : GetVectorStoreFast(c)
    \/ \E c \in Callers : GetVectorStoreSlow(c)
    \/ \E c \in Callers : GetLLMProviderFast(c)
    \/ \E c \in Callers : GetLLMProviderSlow(c)
    \/ ReloadTenants
    \/ Close

SpecLoop == InitLoop /\ [][NextLoop]_vars

SpecMgr == InitMgr /\ [][NextMgr]_vars

(***************************************************************************)
(* Properties of the tool loop.                                            *)
(***************************************************************************)
\* The turn took the handleWithTools path.
ToolPath == messages # << >>

AssistantMessages == {k \in 1..Len(messages) : messages[k].Role = "assistant"}

\* C1: for every MaxToolCalls = N and a model whose every reply requests at
\* least one tool call, handleWithTools makes exactly N completion calls
\* (never N+1) and then returns the reached_max_tool_calls response carrying
\* every invocation result accumulated over the N rounds.
C1_ToolLoopBound ==
    /\ ToolPath => chatCalls <= maxIterations
    /\ (ToolPath /\ pc = "done" /\ toolReplies = chatCalls) =>
          /\ chatCalls = maxIterations
          /\ outcome = "partial"
          /\ response # Nil
          /\ response.warning = "reached_max_tool_calls"
          /\ response.tool_results = allToolResults
          /\ Len(allToolResults) = requested

\* C5: no tool-call outcome aborts the turn: every dispatched call leaves a
\* result, a failed one leaves a tool message beginning "Error: " keyed by
\* the call's id, and the turn neither crashes nor returns an error for it.
C5_NoToolCallAborts ==
    /\ outcome # "panic"
    /\ \A i \in 1..Len(allToolResults) :
          \E k \in 1..Len(messages) :
             /\ messages[k].Role = "tool"
             /\ messages[k].ToolCallID = i
             /\ allToolResults[i].Success = (Head(messages[k].Content) # "Error: ")

C7_CancelAborts ==
    (pc = "done" /\ cancelledAt \in {"chat", "dispatch"}) => response = Nil

InitRls ==
    /\ connTenant = [c \in GlobalConns \cup StoreConns |-> NoTenant]
    /\ wpc = [w \in Turns |-> "idle"]
    /\ wop = [w \in Turns |-> ""]
    /\ wTenant = [w \in Turns |-> NoTenant]
    /\ lastExec = Nil
    /\ LoopIdle
    /\ MgrIdle
    /\ MemIdle
    /\ RegIdle
    /\ RagIdle
    /\ ProcIdle
    /\ UpdIdle

\* Where an operation starts: the TenantRepository methods and
\* DatabaseManager.GetLLMProvider call setTenantContext first; the vector
\* store returned by DatabaseManager.GetVectorStore issues its query at once.
FirstStep(op) == IF op = "store" THEN "exec" ELSE "set_context"

\* The pool an operation's statements run on.
PoolOf(op) == IF op = "store" THEN StoreConns ELSE GlobalConns

\* A turn of tenant t calls a TenantRepository method ("repo"), a vector
\* store method ("store") or DatabaseManager.GetLLMProvider ("llm").
BeginOperation(w) ==
    /\ wpc[w] = "idle"
    /\ \E op \in {"repo", "store", "llm"}, t \in Tenants :
         /\ wop' = [wop EXCEPT ![w] = op]
         /\ wTenant' = [wTenant EXCEPT ![w] = t]
         /\ wpc' = [wpc EXCEPT ![w] = FirstStep(op)]
    /\ UNCHANGED <<connTenant, lastExec, notRlsVars>>

\* setTenantContext: r.db.Exec(ctx, "SELECT set_tenant_context($1)", tenantID)
\* runs on one connection of the pool, or fails and the method returns.
SetTenantContext(w) ==
    /\ wpc[w] = "set_context"
    /\ \/ \E c \in PoolOf(wop[w]) :
            /\ connTenant' = [connTenant EXCEPT ![c] = wTenant[w]]
            /\ wpc' = [wpc EXCEPT ![w] = "exec"]
       \/ /\ wpc' = [wpc EXCEPT ![w] = "idle"]
          /\ UNCHANGED connTenant
    /\ UNCHANGED <<wop, wTenant, lastExec, notRlsVars>>

\* The operation itself (r.repo.GetUser(...), m.globalRepo.
\* GetDefaultLLMProvider(...), vs.db.Query(...)) runs on one connection of
\* its pool, under whatever that connection's session setting is.
ExecuteOperation(w) ==
    /\ wpc[w] = "exec"
    /\ \E c \in PoolOf(wop[w]) :
         lastExec' = [op |-> wop[w], tenant |-> wTenant[w], conn |-> c,
                      context |-> connTenant[c]]
    /\ wpc' = [wpc EXCEPT ![w] = "idle"]
    /\ UNCHANGED <<connTenant, wop, wTenant, notRlsVars>>

\* TenantRepository.Close: r.db.Exec(ctx, "SELECT clear_tenant_context()").
ClearTenantContext ==
    /\ \E c \in GlobalConns : connTenant' = [connTenant EXCEPT ![c] = NoTenant]
    /\ UNCHANGED <<wpc, wop, wTenant, lastExec, notRlsVars>>

NextRls ==
    \/ \E w \in Turns : BeginOperation(w)
    \/ \E w \in Turns : SetTenantContext(w)
    \/ \E w \in Turns : ExecuteOperation(w)
    \/ ClearTenantContext

SpecRls == InitRls /\ [][NextRls]_vars

(***************************************************************************)
(* The memory stores: PGVectorStore (vector similarity) and                *)
(* SQLFallbackStore (full-text search, with an ILIKE search when the       *)
(* full-text query fails).  Both work on the table memory_chunks.          *)
(***************************************************************************)
Users == {"u1", "u2"}

\* Bound on the number of store calls.
MaxMemOps == 3

\* The items a caller stores: kind and text.
MemItems == { [kind |-> "note", text |-> "memory of milk"],
              [kind |-> "task", text |-> "note to self"] }

\* The words of the sample texts, as to_tsvector('english', text) and a
\* '%word%' pattern see them.
WordsOf(txt) ==
    IF txt = "memory of milk" THEN {"memory", "milk"}
    ELSE IF txt = "note to self" THEN {"note", "self"}
    ELSE {}

\* 1 - (embedding <=> $1) for the one query embedding of the model.
Similarity(txt) == IF txt = "memory of milk" THEN 1 ELSE 0

\* SearchOptions: Filter.Kinds, TopK (0 = no LIMIT), MinScore (0 = no threshold).
KindFilters == {<< >>, <<"note">>, <<"task">>}
TopKs == {0, 1}
MinScores == {0, 1}

\* A WHERE clause that leaves the user out.
InScope_TenantOnly(row, tenantID, userID) == row.tenant = tenantID

\* WHERE tenant_id = $ AND user_id = $ (on the rows still in the table).
InScope(row, tenantID, userID) == row.tenant = tenantID /\ row.user = userID

LiveIDs == {id \in DOMAIN chunks : chunks[id].live}

\* AND kind = ANY($n), added when Filter.Kinds is not empty.
KindFilter(row, kinds) ==
    Len(kinds) = 0 \/ \E i \in 1..Len(kinds) : row.kind = kinds[i]

\* searchText of SQLFallbackStore.Search.
SearchText(kinds) == IF Len(kinds) > 0 THEN kinds[1] ELSE "memory"

\* The rows selected by PGVectorStore.Search, before ORDER BY and LIMIT.
VectorRows(tenantID, userID, kinds, minScore) ==
    {id \in LiveIDs : /\ InScope(chunks[id], tenantID, userID)
                      /\ KindFilter(chunks[id], kinds)
                      /\ (minScore > 0 => Similarity(chunks[id].text) >= minScore)}

\* The rows selected by SQLFallbackStore.Search (rank is 1 for a match).
FullTextRows(tenantID, userID, kinds, minScore) ==
    {id \in LiveIDs : /\ InScope(chunks[id], tenantID, userID)
                      /\ SearchText(kinds) \in WordsOf(chunks[id].text)
                      /\ KindFilter(chunks[id], kinds)}

\* The rows selected by searchWithILike.
ILikeRows(tenantID, userID, kinds) ==
    {id \in LiveIDs : /\ InScope(chunks[id], tenantID, userID)
                      /\ \/ SearchText(kinds) \in WordsOf(chunks[id].text)
                         \/ chunks[id].kind = SearchText(kinds)
                      /\ KindFilter(chunks[id], kinds)}

\* The score the query orders by: the similarity, the rank of a match, or
\* CASE WHEN text ILIKE $1 THEN 1.0 ELSE 0.5 (here 2 and 1).
ScoreOf(path, id, kinds) ==
    IF path = "vector" THEN Similarity(chunks[id].text)
    ELSE IF path = "ilike" /\ SearchText(kinds) \in WordsOf(chunks[id].text) THEN 2
    ELSE 1

\* ORDER BY score DESC LIMIT topK: the possible result sets.
Limited(rows, path, topK, kinds) ==
    IF topK = 0 \/ Cardinality(rows) <= topK THEN {rows}
    ELSE {S \in SUBSET rows :
             /\ Cardinality(S) = topK
             /\ \A a \in S, b \in rows \ S : ScoreOf(path, a, kinds) >= ScoreOf(path, b, kinds)}

\* The rows a WHERE tenant_id = $ AND user_id = $ AND id = $ statement sees.
RowsByID(tenantID, userID, id) ==
    {i \in LiveIDs : i = id /\ InScope(chunks[i], tenantID, userID)}

MemOp(op, tenantID, userID, touched, path, err) ==
    [op |-> op, tenant |-> tenantID, user |-> userID, touched |-> touched,
     path |-> path, err |-> err]

\* The ids a by-id call is made with: those handed out so far and one that
\* was never handed out.
CallIDs == 1..(Len(chunks) + 1)

\* The record of a call that names one id.
MemOpByID(op, tenantID, userID, id, touched, err) ==
    [op |-> op, tenant |-> tenantID, user |-> userID, touched |-> touched,
     path |-> "", err |-> err, id |-> id]

InitMem ==
    /\ backend \in {"pgvector", "sql_fallback"}
    /\ chunks = << >>
    /\ lastMemOp = Nil
    /\ memOps = 0
    /\ LoopIdle
    /\ MgrIdle
    /\ RlsIdle
    /\ RegIdle
    /\ RagIdle
    /\ ProcIdle
    /\ UpdIdle

\* Upsert of one item.  The id is a fresh uuid.New(), so ON CONFLICT (id)
\* never fires; PGVectorStore skips an item without an embedding.
Upsert ==
    /\ memOps < MaxMemOps
    /\ \E t \in Tenants, u \in Users, item \in MemItems, embedded \in BOOLEAN :
         IF backend = "pgvector" /\ ~embedded
         THEN /\ lastMemOp' = MemOp("upsert", t, u, {}, "", FALSE)
              /\ UNCHANGED chunks
         ELSE /\ chunks' = Append(chunks, [tenant |-> t, user |-> u, kind |-> item.kind,
                                           text |-> item.text, live |-> TRUE])
              /\ lastMemOp' = MemOp("upsert", t, u, {Len(chunks) + 1}, "", FALSE)
    /\ memOps' = memOps + 1
    /\ UNCHANGED <<backend, notMemVars>>

\* Search.  A failing query is an error in PGVectorStore and the ILIKE
\* search in SQLFallbackStore, which can fail in turn.
Search ==
    /\ memOps < MaxMemOps
    /\ \E t \in Tenants, u \in Users, kinds \in KindFilters, topK \in TopKs,
          minScore \in MinScores, queryFails \in BOOLEAN, iLikeFails \in BOOLEAN :
         LET path == IF backend = "pgvector" THEN "vector"
                     ELSE IF queryFails THEN "ilike" ELSE "fts"
             rows == IF path = "vector" THEN VectorRows(t, u, kinds, minScore)
                     ELSE IF path = "fts" THEN FullTextRows(t, u, kinds, minScore)
                     ELSE ILikeRows(t, u, kinds)
             failed == IF backend = "pgvector" THEN queryFails
                       ELSE queryFails /\ iLikeFails
         IN  IF failed
             THEN lastMemOp' = MemOp("search", t, u, {}, path, TRUE)
             ELSE \E hits \in Limited(rows, path, topK, kinds) :
                     lastMemOp' = MemOp("search", t, u, hits, path, FALSE)
    /\ memOps' = memOps + 1
    /\ UNCHANGED <<backend, chunks, notMemVars>>

\* What GetByID returns: QueryRow(...).Scan fails with pgx.ErrNoRows when no
\* row matches, and the error is returned with a nil chunk; otherwise the
\* chunk and a nil error.
GetByIDResult(tenantID, userID, id) ==
    LET rows == RowsByID(tenantID, userID, id)
    IN  [rows |-> rows, isNil |-> rows = {}, err |-> rows = {}]

\* GetByID: the row, or the error of the failed Scan.
GetByID ==
    /\ memOps < MaxMemOps
    /\ \E t \in Tenants, u \in Users, id \in CallIDs :
         LET r == GetByIDResult(t, u, id)
         IN  lastMemOp' = MemOpByID("get", t, u, id, r.rows, r.err)
    /\ memOps' = memOps + 1
    /\ UNCHANGED <<backend, chunks, notMemVars>>

\* UpdateByID: returns nil without a statement when updates names no known
\* field, and nil after the UPDATE whether or not a row matched.
UpdateByID ==
    /\ memOps < MaxMemOps
    /\ \E t \in Tenants, u \in Users, id \in CallIDs,
          updates \in SUBSET {"text", "kind"}, item \in MemItems :
         LET rows == IF updates = {} THEN {} ELSE RowsByID(t, u, id)
         IN  /\ chunks' = [i \in DOMAIN chunks |->
                             IF i \in rows
                             THEN [chunks[i] EXCEPT
                                     !.text = IF "text" \in updates THEN item.text ELSE @,
                                     !.kind = IF "kind" \in updates THEN item.kind ELSE @]
                             ELSE chunks[i]]
             /\ lastMemOp' = MemOpByID("update", t, u, id, rows, FALSE)
    /\ memOps' = memOps + 1
    /\ UNCHANGED <<backend, notMemVars>>

\* DeleteByID: "memory chunk not found" when RowsAffected() is 0.
DeleteByID ==
    /\ memOps < MaxMemOps
    /\ \E t \in Tenants, u \in Users, id \in CallIDs :
         LET rows == RowsByID(t, u, id)
         IN  /\ chunks' = [i \in DOMAIN chunks |->
                             IF i \in rows THEN [chunks[i] EXCEPT !.live = FALSE]
                                           ELSE chunks[i]]
             /\ lastMemOp' = MemOpByID("delete", t, u, id, rows, rows = {})
    /\ memOps' = memOps + 1
    /\ UNCHANGED <<backend, notMemVars>>

\* DBGetByIDTool.Invoke with a well-formed id and (tenant, user) in the
\* context: an error from the store is returned as the tool's error; a nil
\* item gives {found: false, id}; an item gives {found: true, ...}.
GetByIDToolResult(r, id) ==
    IF r.err THEN [err |-> TRUE, found |-> FALSE, id |-> 0]
    ELSE IF r.isNil THEN [err |-> FALSE, found |-> FALSE, id |-> id]
    ELSE [err |-> FALSE, found |-> TRUE, id |-> id]

\* The get_by_id tool dispatched by ExecuteToolCall: InvokeTool's error makes
\* the invocation result a failed one.
InvokeGetByIDTool ==
    /\ memOps < MaxMemOps
    /\ \E t \in Tenants, u \in Users, id \in CallIDs :
         LET r == GetByIDResult(t, u, id)
             out == GetByIDToolResult(r, id)
         IN  lastMemOp' = [op |-> "tool_get_by_id", tenant |-> t, user |-> u,
                           touched |-> r.rows, path |-> "", err |-> out.err,
                           id |-> id, Success |-> ~out.err,
                           Result |-> [found |-> out.found, id |-> out.id]]
    /\ memOps' = memOps + 1
    /\ UNCHANGED <<backend, chunks, notMemVars>>

NextMem ==
    \/ Upsert
    \/ Search
    \/ GetByID
    \/ UpdateByID
    \/ DeleteByID
    \/ InvokeGetByIDTool

SpecMem == InitMem /\ [][NextMem]_vars

(***************************************************************************)
(* Claims about the tenant managers.                                       *)
(***************************************************************************)
RepoHandlesOf(t) ==
    {h \in DOMAIN handles : handles[h].kind = "repo" /\ handles[h].tenant = t}

\* The goroutines whose GetRepository(t) call has returned a handle.
RepoHolders(t) ==
    {c \in Callers : /\ gpc[c] = "idle" /\ gop[c] = "repo" /\ garg[c] = t
                     /\ gret[c].st = "ok"}

\* C2: for each tenant, GetRepository calls racing on an empty cache entry
\* construct one handle and all return that handle: at any time at most one
\* repository of the tenant exists that has not been evicted and closed, it
\* is the cached one, and any two callers holding live handles hold the same
\* one.  Both managers (mkind) are covered.
C2_OneConstruction ==
    \A t \in Tenants :
       /\ \A h \in RepoHandlesOf(t) :
             handles[h].closes = 0 => repositories[t] = h
       /\ (\A h \in RepoHandlesOf(t) : handles[h].closes = 0)
             => /\ Cardinality(RepoHandlesOf(t)) <= 1
                /\ \A c \in RepoHolders(t) : gret[c].h = repositories[t]

C2_Witness ==
    /\ mkind = "yaml"
    /\ RepoHolders("t1") = Callers
    /\ \A c \in Callers : gret[c].slow
    /\ Cardinality(RepoHandlesOf("t1")) = 1
    /\ \A c \in Callers : gret[c].h = repositories["t1"]

CacheEntries(t) == <<repositories[t], vectorStores[t], llmProviders[t]>>

\* C9: a ReloadTenants that returns nil leaves no cache entry for a tenant
\* of the old table that the new table lacks and has closed its cached
\* repository and vector store; for a tenant in both tables the three cache
\* entries are the same objects as before and they are not closed.
C9_ReloadEvictsRemoved ==
    [][ (ReloadTenants /\ lastReload' = "ok") =>
          \A t \in tenantsByID :
             IF t \notin tenantsByID'
             THEN /\ CacheEntries(t)' = <<NoHandle, NoHandle, NoHandle>>
                  /\ \A h \in {repositories[t], vectorStores[t]} \ {NoHandle} :
                        handles'[h].closes = 1
             ELSE /\ CacheEntries(t)' = CacheEntries(t)
                  /\ \A h \in {repositories[t], vectorStores[t]} \ {NoHandle} :
                        handles'[h].closes = 0 ]_vars

C9_Witness ==
    /\ lastReload = "ok"
    /\ closeCalls = 0
    /\ tenantsByID = {"t2"}
    /\ CacheEntries("t1") = <<NoHandle, NoHandle, NoHandle>>
    /\ \E h \in DOMAIN handles : handles[h].tenant = "t1" /\ handles[h].closes = 1
    /\ \E h \in DOMAIN handles :
          /\ handles[h].tenant = "t2" /\ handles[h].closes = 0
          /\ h \in {repositories["t2"], vectorStores["t2"]}

AllCached == CachedHandles(repositories, Tenants) \cup CachedHandles(vectorStores, Tenants)

\* C10: Close closes each cached repository and vector store exactly once,
\* closes nothing else, empties the three caches and returns nil; so a Close
\* that follows a Close closes nothing, and no handle is ever closed twice.
C10_CloseReleasesOnce ==
    /\ [](\A h \in DOMAIN handles : handles[h].closes <= 1)
    /\ [][ Close =>
             /\ \A h \in DOMAIN handles :
                   handles'[h].closes = (IF h \in AllCached THEN 1 ELSE handles[h].closes)
             /\ \A h \in AllCached : handles[h].closes = 0
             /\ \A t \in Tenants : CacheEntries(t)' = <<NoHandle, NoHandle, NoHandle>>
             /\ lastClose' = "nil" ]_vars

C10_Witness ==
    /\ closeCalls = 2
    /\ lastClose = "nil"
    /\ \E h \in DOMAIN handles : handles[h].closes = 1
    /\ \A t \in Tenants : CacheEntries(t) = <<NoHandle, NoHandle, NoHandle>>

(***************************************************************************)
(* Claims about the shared database.                                       *)
(***************************************************************************)
\* C3: whenever an operation issued for tenant T executes on a pooled
\* connection, the isolation context of that connection is T.
C3_ContextIsTenant ==
    lastExec # Nil => lastExec.context = lastExec.tenant

(***************************************************************************)
(* Claims about the memory stores.                                         *)
(***************************************************************************)
\* C4: every row a store call for (tenant T, user U) returns, modifies or
\* deletes was upserted under (T, U), in both backends and on the ILIKE
\* path: the rows the last call touched belong to its (T, U); a call
\* changes no row of another pair; a row never changes its pair.
C4_MemoryIsolation ==
    /\ [](lastMemOp # Nil =>
            \A id \in lastMemOp.touched :
               /\ id \in DOMAIN chunks
               /\ chunks[id].tenant = lastMemOp.tenant
               /\ chunks[id].user = lastMemOp.user)
    /\ [][ \A id \in DOMAIN chunks :
             /\ chunks'[id].tenant = chunks[id].tenant
             /\ chunks'[id].user = chunks[id].user
             /\ chunks'[id] # chunks[id] =>
                  /\ chunks[id].tenant = lastMemOp'.tenant
                  /\ chunks[id].user = lastMemOp'.user ]_vars

C4_Witness ==
    /\ lastMemOp # Nil
    /\ lastMemOp.op = "search"
    /\ lastMemOp.path = "ilike"
    /\ lastMemOp.touched # {}
    /\ \E id \in LiveIDs, hit \in lastMemOp.touched :
          /\ chunks[id].tenant = lastMemOp.tenant
          /\ chunks[id].user # lastMemOp.user
          /\ chunks[id].text = chunks[hit].text

(***************************************************************************)
(* Further claims about the tenant managers.                               *)
(***************************************************************************)
\* The goroutines whose GetLLMProvider(t) call has returned a provider.  The
\* provider is the one cached inside the ProviderManager the call used, so
\* it is named by that ProviderManager.
ProviderHolders(t) ==
    {c \in Callers : /\ gpc[c] = "idle" /\ gop[c] = "llm" /\ garg[c] = t
                     /\ gret[c].st = "ok"}

\* C11: GetLLMProvider calls racing on an empty cache entry of a tenant
\* construct one ProviderManager and one provider: as long as nothing was
\* evicted (no Close, no ReloadTenants), every caller that got a provider
\* for the tenant got the one of the cached ProviderManager.
C11_OneProvider ==
    (closeCalls = 0 /\ lastReload = "none") =>
       \A t \in Tenants : \A c \in ProviderHolders(t) : gret[c].h = llmProviders[t]

\* C12: a Get* call that returns an error leaves the three caches as they
\* were before the call and leaves no handle behind.  Stated for the first
\* call made on a new manager, whose caches were empty before it.
C12_NoLeakOnFailure ==
    (mgrCalls = 1 /\ \E c \in Callers : gpc[c] = "idle" /\ gret[c].st = "err") =>
       /\ \A t \in Tenants : CacheEntries(t) = <<NoHandle, NoHandle, NoHandle>>
       /\ \A h \in DOMAIN handles : handles[h].closes > 0

(***************************************************************************)
(* internal/tools/schema.go : a Registry on its own, filled by             *)
(* RegisterTool and probed by ValidateInput and ExecuteToolCall.           *)
(***************************************************************************)
\* properties one argument object may carry
MaxProps == 2

\* Further values an argument can hold: a number with a fractional part, a
\* Go int passed by a caller inside the process, and the other JSON kinds.
FracVal(n, f) == [t |-> "float64", v |-> n, frac |-> f]
IntVal(n) == [t |-> "int", v |-> n, frac |-> 0]
BoolVal == [t |-> "bool", v |-> 1, frac |-> 0]
ArrVal == [t |-> "array", v |-> 0, frac |-> 0]
ObjVal == [t |-> "object", v |-> 0, frac |-> 0]
NullVal == [t |-> "nil", v |-> 0, frac |-> 0]

\* What json.Unmarshal can put in the map, and what a Go caller can.
JSONValues == {StrVal("fast"), StrVal("x"), NumVal(1), FracVal(1, 5),
               BoolVal, ArrVal, ObjVal, NullVal}
GoValues == JSONValues \cup {IntVal(1)}

\* A schema using every declared type and an enum.
TypedSchema ==
    [Required |-> <<"mode">>,
     Properties |-> [mode  |-> [Type |-> "string",  Enum |-> <<"fast", "slow">>],
                     count |-> [Type |-> "integer", Enum |-> <<>>],
                     ratio |-> [Type |-> "number",  Enum |-> <<>>],
                     flag  |-> [Type |-> "boolean", Enum |-> <<>>],
                     list  |-> [Type |-> "array",   Enum |-> <<>>],
                     opts  |-> [Type |-> "object",  Enum |-> <<>>]]]

\* The tools offered for registration: two of them share the name "search".
ToolSamples ==
    { [Name |-> "search", ID |-> "searchA", Schema |-> SearchSchema],
      [Name |-> "search", ID |-> "searchB", Schema |-> TypedSchema],
      [Name |-> "typed",  ID |-> "typed",   Schema |-> TypedSchema] }

ToolNames == {"search", "typed", "nope"}

\* The keys an argument object for a tool is built from: the properties its
\* sample schema declares and, for "search", one no schema declares.
KeysFor(toolName) ==
    CASE toolName = "search" -> {"query", "top_k", "extra"}
      [] toolName = "typed"  -> {"mode", "count", "ratio", "flag", "list", "opts"}
      [] OTHER -> {"extra"}

\* Argument objects of at most MaxProps properties.
InputsFor(toolName, values) ==
    UNION { [ks -> values] : ks \in {k \in SUBSET KeysFor(toolName) : Cardinality(k) <= MaxProps} }

\* _, exists := r.tools[name]
Registered_Never(tools, name) == FALSE

Registered(tools, name) == name \in DOMAIN tools

MapPut(f, k, x) == [y \in DOMAIN f \cup {k} |-> IF y = k THEN x ELSE f[y]]

InitReg ==
    /\ RegIdle
    /\ RagIdle
    /\ LoopIdle
    /\ MgrIdle
    /\ RlsIdle
    /\ MemIdle
    /\ ProcIdle
    /\ UpdIdle

\* A call of ValidateInput or ExecuteToolCall leaves the Registry as it is,
\* so the calls examined are those made right after the Registry was built.
Built == regLast.op \in {"none", "register"}

\* Registry.RegisterTool
RegisterTool ==
    \E tool \in ToolSamples :
       /\ IF Registered(regTools, tool.Name)
          THEN /\ regLast' = [op |-> "register", tool |-> tool, err |-> "already registered"]
               /\ UNCHANGED <<regTools, regSchemas>>
          ELSE /\ regTools' = MapPut(regTools, tool.Name, tool.ID)
               /\ regSchemas' = MapPut(regSchemas, tool.Name, tool.Schema)
               /\ regLast' = [op |-> "register", tool |-> tool, err |-> ""]
       /\ UNCHANGED notRegVars

\* Registry.ValidateInput called by Go code
ValidateCall ==
    /\ Built
    /\ \E toolName \in ToolNames : \E input \in InputsFor(toolName, GoValues) :
          regLast' = [op |-> "validate", name |-> toolName, input |-> input,
                      err |-> ValidateInput(regSchemas, toolName, input)]
    /\ UNCHANGED <<regTools, regSchemas>>
    /\ UNCHANGED notRegVars

\* The tool calls a reply can carry: arguments that are a JSON object, that
\* are not parseable, that are the literal null, and a call without function
\* information.
RegToolCalls ==
    UNION { { [Function |-> [Name |-> n, Arguments |-> Obj(input)]] :
                  input \in InputsFor(n, JSONValues) } : n \in ToolNames }
    \cup { [Function |-> [Name |-> n, Arguments |-> [kind |-> k]]] :
               n \in ToolNames, k \in {"malformed", "null"} }
    \cup { [Function |-> Nil] }

\* Registry.ExecuteToolCall
ExecuteCall ==
    /\ Built
    /\ \E toolCall \in RegToolCalls : \E toolOutcome \in {"ok", "err"} :
          regLast' = [op |-> "execute", call |-> toolCall,
                      result |-> ExecuteToolCall(regSchemas, toolCall, toolOutcome),
                      raised |-> FALSE]
    /\ UNCHANGED <<regTools, regSchemas>>
    /\ UNCHANGED notRegVars

NextReg ==
    \/ RegisterTool
    \/ ValidateCall
    \/ ExecuteCall

SpecReg == InitReg /\ [][NextReg]_vars

(***************************************************************************)
(* Properties of the Registry.                                             *)
(***************************************************************************)
\* A value is of the declared schema type: an integer is a whole number, a
\* number is any numeric value.
IsOfType(value, type) ==
    CASE type = "string"  -> value.t = "string"
      [] type = "integer" -> value.t \in {"int", "int32", "int64"}
                                \/ (value.t = "float64" /\ value.frac = 0)
      [] type = "number"  -> value.t \in {"int", "int32", "int64", "float32", "float64"}
      [] type = "boolean" -> value.t = "bool"
      [] type = "array"   -> value.t = "array"
      [] type = "object"  -> value.t = "object"

Conforms(schema, input) ==
    /\ \A i \in 1..Len(schema.Required) : schema.Required[i] \in DOMAIN input
    /\ \A f \in DOMAIN schema.Properties \cap DOMAIN input :
          /\ IsOfType(input[f], schema.Properties[f].Type)
          /\ Len(schema.Properties[f].Enum) > 0 =>
                /\ input[f].t = "string"
                /\ \E i \in 1..Len(schema.Properties[f].Enum) :
                      schema.Properties[f].Enum[i] = input[f].v

\* C13: for a registered schema, ValidateInput accepts an argument object
\* exactly when every required property is present, every present declared
\* property is of its declared type and every enumerated one holds a listed
\* member.
C13_ValidateIff ==
    (regLast.op = "validate" /\ regLast.name \in DOMAIN regSchemas) =>
       ((regLast.err = "") <=> Conforms(regSchemas[regLast.name], regLast.input))

\* C14: ExecuteToolCall always returns a result and a nil error; when the
\* arguments do not parse, or validation fails, or the name is not
\* registered, the result has Success = false, a non-empty Error, and the
\* tool's Invoke has not been called.
C14_DispatchNeverRaises ==
    regLast.op = "execute" =>
       /\ regLast.raised = FALSE
       /\ LET f == regLast.call.Function
              failing == \/ f = Nil
                         \/ ~ParseArguments(f.Arguments).ok
                         \/ f.Name \notin DOMAIN regTools
                         \/ ValidateInput(regSchemas, f.Name, ParseArguments(f.Arguments).args) # ""
          IN  failing => /\ regLast.result.Success = FALSE
                         /\ regLast.result.Error # ""
                         /\ regLast.result.invoked = FALSE

\* A registered tool was called with arguments that parse but do not pass
\* validation, and the call came back as a failed result.
C14_Witness ==
    /\ regLast.op = "execute"
    /\ regLast.call.Function # Nil
    /\ regLast.call.Function.Name \in DOMAIN regTools
    /\ ParseArguments(regLast.call.Function.Arguments).ok
    /\ ValidateInput(regSchemas, regLast.call.Function.Name,
                     ParseArguments(regLast.call.Function.Arguments).args) = "type"
    /\ regLast.result.Success = FALSE
    /\ regLast.result.invoked = FALSE

\* C15: registering a name already present fails and leaves the Registry as
\* it was (the tool registered first and its schema stay); registering a
\* name not yet present succeeds, and afterwards that tool and every tool
\* registered before are retrievable under their names.
C15_DuplicateRegistration ==
    [][regLast'.op = "register" =>
         LET tool == regLast'.tool
         IN  IF tool.Name \in DOMAIN regTools
             THEN /\ regLast'.err # ""
                  /\ regTools' = regTools
                  /\ regSchemas' = regSchemas
             ELSE /\ regLast'.err = ""
                  /\ DOMAIN regTools' = DOMAIN regTools \cup {tool.Name}
                  /\ regTools'[tool.Name] = tool.ID
                  /\ regSchemas'[tool.Name] = tool.Schema
                  /\ \A n \in DOMAIN regTools : /\ regTools'[n] = regTools[n]
                                                 /\ regSchemas'[n] = regSchemas[n]]_vars

\* Two tools with distinct names are registered, and a second tool named
\* "search" has just been refused.
C15_Witness ==
    /\ regLast.op = "register"
    /\ regLast.err # ""
    /\ regLast.tool.ID = "searchB"
    /\ DOMAIN regTools = {"search", "typed"}
    /\ regTools["search"] = "searchA"
    /\ regSchemas["search"] = SearchSchema

NoSuchRow ==
    /\ lastMemOp # Nil
    /\ lastMemOp.op \in {"get", "update", "delete", "tool_get_by_id"}
    /\ lastMemOp.touched = {}
    /\ RowsByID(lastMemOp.tenant, lastMemOp.user, lastMemOp.id) = {}

\* C17: the get_by_id tool called with a well-formed id that has no row
\* under the calling (tenant, user) is a successful invocation with result
\* {found: false, id: the given id}, in both backends.
C17_GetByIDToolNotFound ==
    (NoSuchRow /\ lastMemOp.op = "tool_get_by_id") =>
       /\ lastMemOp.Success = TRUE
       /\ lastMemOp.Result = [found |-> FALSE, id |-> lastMemOp.id]

\* C18: GetByID, UpdateByID and DeleteByID called with an id that has no
\* row under the given (tenant, user) report an error, in both backends,
\* and leave the store as it was.
C18_MissingIsNotFound ==
    /\ []((NoSuchRow /\ lastMemOp.op \in {"get", "update", "delete"}) =>
             lastMemOp.err = TRUE)
    /\ [][(lastMemOp' # lastMemOp /\ lastMemOp'.op \in {"get", "update", "delete"}
            /\ lastMemOp'.touched = {}) => chunks' = chunks]_vars

(***************************************************************************)
(* The memory Pipeline (src/unnamed/part_010): StoreMemory with chunking,  *)
(* SearchMemory with post-processing.  A text is the sequence of its       *)
(* positions, so a chunk's text tells which slice of the text it is.       *)
(***************************************************************************)
\* longest text stored
MaxTextLen == 6
\* largest configured ChunkSize
MaxChunkSize == 3
\* most hits vectorStore.Search returns
MaxStoreHits == 3

TextOfLen(n) == [k \in 1..n |-> k]

\* Configurations with ChunkSize > 0 and 0 <= ChunkOverlap < ChunkSize (with
\* ChunkOverlap >= ChunkSize the loop of chunkMemoryItem does not advance).
PipelineConfigs ==
    { c \in [ChunkSize : 1..MaxChunkSize, ChunkOverlap : 0..(MaxChunkSize - 1)] :
         c.ChunkOverlap < c.ChunkSize }

\* The loop increment: i += ChunkSize - ChunkOverlap
NextStart_NoOverlap(i, config) == i + config.ChunkSize

NextStart(i, config) == i + config.ChunkSize - config.ChunkOverlap

\* text[i:end] of Go (i from 0, end exclusive)
Slice(txt, i, end) == SubSeq(txt, i + 1, end)

\* The for loop of chunkMemoryItem from offset i with chunkIndex so far.
RECURSIVE chunkLoop(_, _, _, _, _)
chunkLoop(txt, metadata, config, i, chunkIndex) ==
    IF ~(i < Len(txt)) THEN << >>
    ELSE LET end == IF i + config.ChunkSize > Len(txt) THEN Len(txt)
                    ELSE i + config.ChunkSize
             chunk == [Text |-> Slice(txt, i, end),
                       Metadata |-> [embedding |-> metadata.embedding,
                                     chunk_index |-> chunkIndex,
                                     chunk_count |-> (Len(txt) + config.ChunkSize - 1)
                                                        \div config.ChunkSize,
                                     parent_text_length |-> Len(txt)]]
         IN  IF end >= Len(txt) THEN <<chunk>>
             ELSE <<chunk>> \o chunkLoop(txt, metadata, config,
                                         NextStart(i, config), chunkIndex + 1)

\* chunkMemoryItem
chunkMemoryItem(item, config) ==
    IF Len(item.Text) <= config.ChunkSize THEN <<item>>
    ELSE chunkLoop(item.Text, item.Metadata, config, 0, 0)

\* Lines 105-110: chunk i gets chunkEmbeddings[i] when there is one.
AssignEmbeddings(items, m) ==
    [i \in 1..Len(items) |->
        IF i <= m THEN [items[i] EXCEPT !.Metadata.embedding = "chunk"]
        ELSE items[i]]

InitRag ==
    /\ ragPc = "idle"
    /\ ragConfig \in PipelineConfigs
    /\ ragText = << >>
    /\ ragItems = << >>
    /\ ragStored = << >>
    /\ ragOutcome = "none"
    /\ ragHits = << >>
    /\ ragResult = << >>
    /\ LoopIdle
    /\ MgrIdle
    /\ RlsIdle
    /\ MemIdle
    /\ RegIdle
    /\ ProcIdle
    /\ UpdIdle

\* StoreMemory is called with a text; lines 74-81: Embed of the whole text.
StoreMemoryEmbed ==
    /\ ragPc = "idle"
    /\ \E n \in 0..MaxTextLen :
         /\ ragText' = TextOfLen(n)
         /\ \/ /\ ragPc' = "done"           \* Embed fails or returns nothing
               /\ ragOutcome' = "error"
               /\ UNCHANGED ragItems
            \/ /\ ragPc' = "embed"
               /\ ragItems' = << [Text |-> TextOfLen(n),
                                  Metadata |-> [embedding |-> "whole"]] >>
               /\ UNCHANGED ragOutcome
    /\ UNCHANGED <<ragConfig, ragStored, ragHits, ragResult>>
    /\ UNCHANGED notRagVars

\* Lines 90-111: chunking and the Embed of the chunks.
StoreMemoryChunk ==
    /\ ragPc = "embed"
    /\ IF Len(ragItems[1].Text) > ragConfig.ChunkSize
       THEN LET items == chunkMemoryItem(ragItems[1], ragConfig)
            IN  \/ /\ ragPc' = "done"       \* Embed of the chunks fails
                   /\ ragOutcome' = "error"
                   /\ ragItems' = items
                \/ /\ ragPc' = "upsert"
                   /\ \E m \in {Len(items) - 1, Len(items)} :
                         ragItems' = AssignEmbeddings(items, m)
                   /\ UNCHANGED ragOutcome
       ELSE /\ ragPc' = "upsert"
            /\ UNCHANGED <<ragItems, ragOutcome>>
    /\ UNCHANGED <<ragConfig, ragText, ragStored, ragHits, ragResult>>
    /\ UNCHANGED notRagVars

\* Lines 114-121: one vectorStore.Upsert per item; the first error returns.
StoreMemoryUpsert ==
    /\ ragPc = "upsert"
    /\ ragItems # << >>
    /\ \/ /\ ragPc' = "done"
          /\ ragOutcome' = "error"
          /\ UNCHANGED <<ragItems, ragStored>>
       \/ /\ ragStored' = Append(ragStored, Head(ragItems))
          /\ ragItems' = Tail(ragItems)
          /\ UNCHANGED <<ragPc, ragOutcome>>
    /\ UNCHANGED <<ragConfig, ragText, ragHits, ragResult>>
    /\ UNCHANGED notRagVars

\* Lines 123-134: the id of the first record is returned.
StoreMemoryReturn ==
    /\ ragPc = "upsert"
    /\ ragItems = << >>
    /\ ragPc' = "done"
    /\ ragOutcome' = IF Len(ragStored) = 0 THEN "error" ELSE "ok"
    /\ UNCHANGED <<ragConfig, ragText, ragItems, ragStored, ragHits, ragResult>>
    /\ UNCHANGED notRagVars

\* The hits a store can return.  Words is the set of lower-cased
\* strings.Fields words of the hit's text; Age is what the metadata entry
\* created_at says ("none": no such entry or not an RFC 3339 string).
HitSamples ==
    { [Words |-> 1..10, Kind |-> "note",  Age |-> "none"],
      [Words |-> 1..11, Kind |-> "task",  Age |-> "day"],
      [Words |-> 1..12, Kind |-> "event", Age |-> "week"],
      [Words |-> {},    Kind |-> "note",  Age |-> "old"],
      [Words |-> {20},  Kind |-> "task",  Age |-> "none"] }

\* vectorStore.Search results: hits with distinct ids, scores descending
\* (in thousandths).
StoreResults ==
    UNION { { [i \in 1..n |-> [ID |-> i, Words |-> f[i].Words, Kind |-> f[i].Kind,
                               Age |-> f[i].Age, Score |-> 950 - 50 * i]] :
                f \in [1..n -> HitSamples] } : n \in 0..MaxStoreHits }

\* Query texts, each with the trigger words it contains.
Queries ==
    { [name |-> "milk", triggers |-> {}],
      [name |-> "latest task", triggers |-> {"latest", "task"}],
      [name |-> "next meeting", triggers |-> {"meeting"}] }

\* textSimilarity as the fraction num/den.
textSimilarity(words1, words2) ==
    IF words1 = {} /\ words2 = {} THEN [num |-> 1, den |-> 1]
    ELSE IF words1 = {} \/ words2 = {} THEN [num |-> 0, den |-> 1]
    ELSE [num |-> Cardinality(words1 \cap words2),
          den |-> Cardinality(words1) + Cardinality(words2)
                     - Cardinality(words1 \cap words2)]

\* similarity > 0.9
IsDuplicate_Never(sim) == FALSE

IsDuplicate(sim) == 10 * sim.num > 9 * sim.den

\* The loop of deduplicateResults from hit k on, unique being kept so far.
RECURSIVE dedupLoop(_, _, _)
dedupLoop(hits, k, unique) ==
    IF k > Len(hits) THEN unique
    ELSE IF \E j \in 1..Len(unique) :
               IsDuplicate(textSimilarity(hits[k].Words, unique[j].Words))
         THEN dedupLoop(hits, k + 1, unique)
         ELSE dedupLoop(hits, k + 1, Append(unique, hits[k]))

deduplicateResults(hits) ==
    IF Len(hits) <= 1 THEN hits ELSE dedupLoop(hits, 1, << >>)

\* Score *= pct / 100
Boost(score, pct) == (score * pct) \div 100

\* applyQueryBoosts: the scores change, the list does not.
applyQueryBoosts(hits, query) ==
    [i \in 1..Len(hits) |->
        LET s1 == IF query.triggers \cap {"recent", "latest"} # {}
                  THEN CASE hits[i].Age = "day"  -> Boost(hits[i].Score, 120)
                         [] hits[i].Age = "week" -> Boost(hits[i].Score, 110)
                         [] OTHER -> hits[i].Score
                  ELSE hits[i].Score
            s2 == IF query.triggers \cap {"task", "todo"} # {} /\ hits[i].Kind = "task"
                  THEN Boost(s1, 115) ELSE s1
            s3 == IF query.triggers \cap {"schedule", "appointment", "meeting"} # {}
                     /\ hits[i].Kind = "event"
                  THEN Boost(s2, 115) ELSE s2
        IN  [hits[i] EXCEPT !.Score = s3]]

postProcessResults(hits, query) ==
    IF Len(hits) = 0 THEN hits
    ELSE applyQueryBoosts(deduplicateResults(hits), query)

\* SearchMemory: Embed of the query, vectorStore.Search, post-processing.
SearchMemory ==
    /\ ragPc = "idle"
    /\ ragPc' = "done"
    /\ \/ /\ ragOutcome' = "error"         \* Embed or Search fails
          /\ UNCHANGED <<ragHits, ragResult>>
       \/ \E hits \in StoreResults, query \in Queries :
             /\ ragHits' = hits
             /\ ragResult' = postProcessResults(hits, query)
             /\ ragOutcome' = "ok"
    /\ UNCHANGED <<ragConfig, ragText, ragItems, ragStored>>
    /\ UNCHANGED notRagVars

NextRag ==
    \/ StoreMemoryEmbed
    \/ StoreMemoryChunk
    \/ StoreMemoryUpsert
    \/ StoreMemoryReturn
    \/ SearchMemory

SpecRag == InitRag /\ [][NextRag]_vars

(***************************************************************************)
(* Properties of the memory Pipeline.                                      *)
(***************************************************************************)
\* The positions of the text a stored record holds.
Covered(rec) == {rec.Text[k] : k \in 1..Len(rec.Text)}

\* C19: with ChunkSize > 0 and 0 <= ChunkOverlap < ChunkSize, StoreMemory of
\* a text longer than ChunkSize that returns without error has upserted
\* n >= 2 chunk records in order; record i (from 0) has chunk_index i and is
\* the slice of the text starting at i * (ChunkSize - ChunkOverlap), of
\* length at most ChunkSize; together the records cover every position.
C19_Chunking ==
    (ragOutcome = "ok" /\ Len(ragText) > ragConfig.ChunkSize) =>
       LET n == Len(ragStored)
           step == ragConfig.ChunkSize - ragConfig.ChunkOverlap
       IN  /\ n >= 2
           /\ ragItems = << >>
           /\ \A i \in 0..(n - 1) :
                 LET rec == ragStored[i + 1]
                 IN  /\ rec.Metadata.chunk_index = i
                     /\ Len(rec.Text) >= 1
                     /\ Len(rec.Text) <= ragConfig.ChunkSize
                     /\ \A k \in 1..Len(rec.Text) : rec.Text[k] = ragText[i * step + k]
                     /\ (i < n - 1) => Len(rec.Text) = ragConfig.ChunkSize
           /\ UNION {Covered(ragStored[j]) : j \in 1..n} = 1..Len(ragText)

\* A text longer than ChunkSize was stored with overlapping chunks.
C19_Witness ==
    /\ ragOutcome = "ok"
    /\ ragConfig.ChunkOverlap > 0
    /\ Len(ragText) > 2 * ragConfig.ChunkSize
    /\ Len(ragStored) >= 3
    /\ ragStored[2].Metadata.chunk_index = 1

\* SearchMemory has returned a list.
SearchReturned == ragPc = "done" /\ ragOutcome = "ok" /\ ragStored = << >>

\* Word-set Jaccard similarity greater than 0.9 (two texts without words
\* count as identical).
NearIdentical(w1, w2) ==
    IF w1 \cup w2 = {} THEN TRUE
    ELSE 10 * Cardinality(w1 \cap w2) > 9 * Cardinality(w1 \cup w2)

KeptIDs == {ragResult[k].ID : k \in 1..Len(ragResult)}

\* The returned list is a subsequence of the store's list: its hits are
\* store hits (the score apart), in the store's order.
IsSubsequence ==
    /\ \A k \in 1..Len(ragResult) :
          /\ ragResult[k].ID \in 1..Len(ragHits)
          /\ [ragResult[k] EXCEPT !.Score = 0] = [ragHits[ragResult[k].ID] EXCEPT !.Score = 0]
    /\ \A k \in 1..(Len(ragResult) - 1) : ragResult[k].ID < ragResult[k + 1].ID

NoTwoNearIdentical ==
    \A k, l \in 1..Len(ragResult) :
       k # l => ~NearIdentical(ragResult[k].Words, ragResult[l].Words)

\* The groups of near-identical hits in the store's list: two or more hits
\* near-identical to one another, with no further hit near-identical to all.
Groups ==
    {g \in SUBSET (1..Len(ragHits)) :
        /\ Cardinality(g) >= 2
        /\ \A i, j \in g : NearIdentical(ragHits[i].Words, ragHits[j].Words)
        /\ \A h \in (1..Len(ragHits)) \ g :
              \E i \in g : ~NearIdentical(ragHits[i].Words, ragHits[h].Words)}

\* C20 as stated: no two returned hits are near-identical, the returned
\* list is a subsequence of the store's list, and of any group of
\* near-identical hits the one that came first in the store's order is the
\* one kept.
C20_DedupFirstOfGroupKept ==
    SearchReturned =>
       /\ NoTwoNearIdentical
       /\ IsSubsequence
       /\ \A g \in Groups :
             \E first \in g : /\ \A other \in g : first <= other
                              /\ g \cap KeptIDs = {first}

\* C20, amended: no two returned hits are near-identical, the returned list
\* is a subsequence of the store's list, the store's first hit is kept, and
\* a hit is dropped exactly when it is near-identical to a kept hit that
\* came before it.
C20_DedupGreedy ==
    SearchReturned =>
       /\ NoTwoNearIdentical
       /\ IsSubsequence
       /\ Len(ragHits) > 0 => 1 \in KeptIDs
       /\ \A j \in 1..Len(ragHits) :
             j \notin KeptIDs <=>
                \E i \in 1..(j - 1) :
                   i \in KeptIDs /\ NearIdentical(ragHits[i].Words, ragHits[j].Words)

\* Three hits, the second near-identical to the first and to the third,
\* the third not to the first: the second is dropped, the third kept.
C20_Witness ==
    /\ SearchReturned
    /\ Len(ragHits) = 3
    /\ NearIdentical(ragHits[1].Words, ragHits[2].Words)
    /\ NearIdentical(ragHits[2].Words, ragHits[3].Words)
    /\ ~NearIdentical(ragHits[1].Words, ragHits[3].Words)
    /\ KeptIDs = {1, 3}

(***************************************************************************)
(* Further properties of the tool loop.                                    *)
(***************************************************************************)
\* C21: a Chat failure in any round of the tool loop (an error or a reply
\* without choices) ends the turn: Route returns the error and no response,
\* and after the failing call there is no further Chat call and no tool
\* dispatch.
C21_ChatFailureAborts ==
    /\ []((ToolPath /\ outcome = "error") =>
             /\ pc = "done"
             /\ response = Nil
             /\ Len(chatLog) = chatCalls)
    /\ [][(ToolPath /\ outcome = "error") =>
             /\ chatCalls' = chatCalls
             /\ chatLog' = chatLog
             /\ invoked' = invoked
             /\ allToolResults' = allToolResults
             /\ messages' = messages
             /\ outcome' = outcome
             /\ response' = response]_vars

\* The second Chat call of a turn failed, after a tool had been invoked.
C21_Witness ==
    /\ ToolPath
    /\ outcome = "error"
    /\ pc = "done"
    /\ chatCalls = 2
    /\ invoked >= 1
    /\ response = Nil

\* The index of the assistant message following message a, or the end.
NextAssistant(a) ==
    IF \E b \in AssistantMessages : b > a
    THEN CHOOSE b \in AssistantMessages :
            b > a /\ \A c \in AssistantMessages : c > a => b <= c
    ELSE Len(messages) + 1

\* The tool messages that follow assistant message a answer the first
\* tool calls of a, one each, in request order, under the calls' ids.
AnsweredInOrder(a) ==
    LET tcs == messages[a].ToolCalls
        m == NextAssistant(a) - 1 - a
    IN  /\ m <= Len(tcs)
        /\ \A j \in 1..m : /\ messages[a + j].Role = "tool"
                            /\ messages[a + j].ToolCallID = tcs[j].ID

\* Every tool call of assistant message a has its tool message.
FullyAnswered(a) == NextAssistant(a) - 1 - a = Len(messages[a].ToolCalls)

KeywordOrder ==
    <<"memory_store", "memory_search", "memory_update", "api_call", "schedule",
      "conversational">>

\* The intent of the first keyword set, in that order, with a keyword
\* contained in the text; conversational when there is none.
FirstMatch(t) ==
    IF t.matches = {} THEN "conversational"
    ELSE KeywordOrder[CHOOSE i \in 1..Len(KeywordOrder) :
                         /\ KeywordOrder[i] \in t.matches
                         /\ \A j \in 1..(i - 1) : KeywordOrder[j] \notin t.matches]

\* C27: DetectIntent returns, for every text and on every invocation, the
\* intent of the first keyword set in one fixed order that has a keyword
\* contained in the text, so a text with keywords of two intents is always
\* classified the same way.
C27_IntentDeterministic ==
    intent # "" => intent = FirstMatch(text)

(***************************************************************************)
(* Further properties of the memory Pipeline.                              *)
(***************************************************************************)
\* C28: when StoreMemory returns an error (Embed fails or returns nothing,
\* or the Upsert of some chunk fails) no record of the item is left in the
\* store.
C28_StoreAllOrNothing ==
    (ragPc = "done" /\ ragOutcome = "error") => ragStored = << >>

\* C30: the list SearchMemory returns is ordered by non-increasing score and
\* every score is at most 1 (1000 thousandths), whatever trigger words the
\* query contains.
C30_ScoresOrderedAndBounded ==
    SearchReturned =>
       /\ \A k \in 1..Len(ragResult) : /\ ragResult[k].Score >= 0
                                        /\ ragResult[k].Score <= 1000
       /\ \A k \in 1..(Len(ragResult) - 1) :
             ragResult[k].Score >= ragResult[k + 1].Score

(***************************************************************************)
(* Further properties of the tenant managers.                              *)
(***************************************************************************)
\* C24: ReloadTenants is atomic, and a ReloadTenants that fails (the
\* configuration cannot be loaded, or initializeTenants rejects an entry)
\* leaves the manager as it was: the tenant table, the retained
\* configuration and the three handle caches are unchanged.
C24_FailedReloadKeepsState ==
    [][(ReloadTenants /\ lastReload' \in {"load_error", "init_error"}) =>
          /\ tenantsByID' = tenantsByID
          /\ tenantsConfig' = tenantsConfig
          /\ cacheVars' = cacheVars]_vars

(***************************************************************************)
(* MessageProcessor (part_011): the turns of concurrent webhook requests   *)
(* on the one tenant manager and the one tool Registry that main creates   *)
(* (cmd/server/main.go 70-100).  The Registry has no lock; each call of    *)
(* the manager runs under m.mutex and is one step.                         *)
(***************************************************************************)
\* Two of the tools initializeToolsForTenant registers, in its order: a
\* memory tool and the API tool.
BuiltinTools == <<"upsert_item", "call_api">>

\* builtin.NewDBUpsertTool(vectorStore, llmProvider, logger) and
\* builtin.NewHTTPCallTool(repo, logger): the handles the tool keeps.
NewTool(name, got) ==
    IF name = "upsert_item"
    THEN [store |-> got.store, llm |-> got.llm, repo |-> NoHandle]
    ELSE [store |-> NoHandle, llm |-> "", repo |-> got.repo]

\* The handle was closed by cleanupRemovedTenants or Close.
IsClosed(h) == h # NoHandle /\ handles[h].closes > 0

\* A turn is inside a statement that reads r.tools / writes r.tools.
MapReadPcs == {"reg_lookup", "list", "route"}
MapWritePcs == {"reg_write"}

\* Another turn is inside a statement on r.tools while m reads it / writes it.
ReadRaces(m) == \E o \in Inbound \ {m} : tpc[o] \in MapWritePcs
WriteRaces(m) == \E o \in Inbound \ {m} : tpc[o] \in MapReadPcs \cup MapWritePcs

\* The Go runtime may detect the unsynchronised map access and stop the
\* process ("fatal error: concurrent map writes" / "concurrent map read and
\* map write"), or not.
RaceOutcome(racing) ==
    IF racing THEN procFatal' \in BOOLEAN ELSE procFatal' = procFatal

InitProc ==
    /\ mkind \in {"yaml", "db"}
    /\ tenantsConfig = (IF mkind = "yaml" THEN Tenants ELSE {})
    /\ tenantsByID = Tenants
    /\ repositories = EmptyCache
    /\ vectorStores = EmptyCache
    /\ llmProviders = EmptyCache
    /\ handles = << >>
    /\ pmCount = 0
    /\ globalDBCloses = 0
    /\ gpc = [c \in Callers |-> "idle"]
    /\ gop = [c \in Callers |-> ""]
    /\ garg = [c \in Callers |-> ""]
    /\ gret = [c \in Callers |-> NoRet]
    /\ gpm = [c \in Callers |-> NoHandle]
    /\ mgrCalls = 0
    /\ closeCalls = 0
    /\ lastReload = "none"
    /\ lastClose = "none"
    /\ tpc = [m \in Inbound |-> "idle"]
    /\ ttenant = [m \in Inbound |-> ""]
    /\ tgot = [m \in Inbound |-> [llm |-> "", store |-> NoHandle, repo |-> NoHandle]]
    /\ tnext = [m \in Inbound |-> 1]
    /\ procTools = << >>
    /\ lastUse = Nil
    /\ procFatal = FALSE
    /\ LoopIdle
    /\ RlsIdle
    /\ MemIdle
    /\ RegIdle
    /\ RagIdle
    /\ UpdIdle

\* The turn returns an error before it reaches the orchestrator.
TurnFails(m) == tpc' = [tpc EXCEPT ![m] = "done"]

\* processWebhookResult resolved the tenant of the message and calls
\* ProcessMessage.
StartTurn(m) ==
    /\ ~procFatal
    /\ tpc[m] = "idle"
    /\ \E t \in tenantsByID : ttenant' = [ttenant EXCEPT ![m] = t]
    /\ tpc' = [tpc EXCEPT ![m] = "llm"]
    /\ UNCHANGED <<tgot, tnext, procTools, lastUse, procFatal>>
    /\ UNCHANGED <<mgrVars, notProcVars>>

\* m.GetRepository(t) as a whole, the ways it can return: the cached
\* repository, or a new one when the tenant is configured and the connection
\* succeeds, or an error; with the cache and the handles it leaves.
RepositoryFor(t) ==
    IF Cached(repositories, t)
    THEN {[ok |-> TRUE, h |-> repositories[t], cache |-> repositories, hs |-> handles]}
    ELSE IF t \notin tenantsByID
    THEN {[ok |-> FALSE, h |-> NoHandle, cache |-> repositories, hs |-> handles]}
    ELSE {IF o = "ok"
          THEN [ok |-> TRUE, h |-> Len(handles) + 1,
                cache |-> [repositories EXCEPT ![t] = Len(handles) + 1],
                hs |-> Append(handles, NewHandle("repo", t))]
          ELSE [ok |-> FALSE, h |-> NoHandle, cache |-> repositories, hs |-> handles]
          : o \in ConnectOutcomes(mkind)}

\* The ProviderManager reads the tenant's configuration.
ProviderConfigured(m, canSucceed) ==
    \E o \in (IF canSucceed THEN ConfigOutcomes ELSE {"err"}) :
       IF o = "ok"
       THEN /\ tgot' = [tgot EXCEPT ![m].llm = ttenant[m]]
            /\ tpc' = [tpc EXCEPT ![m] = "store"]
       ELSE /\ TurnFails(m)
            /\ UNCHANGED tgot

\* llmProvider, err := p.tenantManager.GetLLMProvider(tenant.ID)
TurnGetLLMProvider(m) ==
    /\ ~procFatal
    /\ tpc[m] = "llm"
    /\ LET t == ttenant[m]
       IN  /\ IF Cached(llmProviders, t)
              THEN UNCHANGED <<llmProviders, pmCount>>
              ELSE /\ pmCount' = pmCount + 1
                   /\ llmProviders' = [llmProviders EXCEPT ![t] = pmCount + 1]
           /\ IF mkind = "yaml"
              THEN \E r \in RepositoryFor(t) :
                      /\ repositories' = r.cache
                      /\ handles' = r.hs
                      /\ IF r.ok THEN ProviderConfigured(m, TRUE)
                                 ELSE TurnFails(m) /\ UNCHANGED tgot
              ELSE /\ ProviderConfigured(m, globalDBCloses = 0)
                   /\ UNCHANGED <<repositories, handles>>
    /\ UNCHANGED <<ttenant, tnext, procTools, lastUse, procFatal, vectorStores>>
    /\ UNCHANGED <<tableVars, callerVars, adminVars, notProcVars>>

\* vectorStore, err := p.tenantManager.GetVectorStore(tenant.ID)
TurnGetVectorStore(m) ==
    /\ ~procFatal
    /\ tpc[m] = "store"
    /\ LET t == ttenant[m]
           Got(h) == /\ tgot' = [tgot EXCEPT ![m].store = h]
                     /\ tpc' = [tpc EXCEPT ![m] = "repo"]
       IN  IF Cached(vectorStores, t)
           THEN /\ Got(vectorStores[t])
                /\ UNCHANGED <<vectorStores, handles>>
           ELSE IF t \notin tenantsByID
           THEN /\ TurnFails(m)
                /\ UNCHANGED <<vectorStores, handles, tgot>>
           ELSE \E o \in FactoryOutcomes :
                   IF o = "ok"
                   THEN /\ handles' = Append(handles, NewHandle("store", t))
                        /\ vectorStores' = [vectorStores EXCEPT ![t] = Len(handles) + 1]
                        /\ Got(Len(handles) + 1)
                   ELSE /\ TurnFails(m)
                        /\ UNCHANGED <<vectorStores, handles, tgot>>
    /\ UNCHANGED <<ttenant, tnext, procTools, lastUse, procFatal>>
    /\ UNCHANGED <<repositories, llmProviders, pmCount>>
    /\ UNCHANGED <<tableVars, callerVars, adminVars, notProcVars>>

\* repo, err := p.tenantManager.GetRepository(tenant.ID); then NewPipeline
\* and the first RegisterTool of initializeToolsForTenant begins.
TurnGetRepository(m) ==
    /\ ~procFatal
    /\ tpc[m] = "repo"
    /\ \E r \in RepositoryFor(ttenant[m]) :
          /\ repositories' = r.cache
          /\ handles' = r.hs
          /\ IF r.ok THEN /\ tgot' = [tgot EXCEPT ![m].repo = r.h]
                          /\ tpc' = [tpc EXCEPT ![m] = "reg_lookup"]
                     ELSE TurnFails(m) /\ UNCHANGED tgot
    /\ UNCHANGED <<ttenant, tnext, procTools, lastUse, procFatal>>
    /\ UNCHANGED <<vectorStores, llmProviders, pmCount>>
    /\ UNCHANGED <<tableVars, callerVars, adminVars, notProcVars>>

\* After one RegisterTool: the next tool, or the ListTools of the debug log.
NextRegistration(m) ==
    IF tnext[m] < Len(BuiltinTools)
    THEN /\ tnext' = [tnext EXCEPT ![m] = @ + 1]
         /\ tpc' = [tpc EXCEPT ![m] = "reg_lookup"]
    ELSE /\ tnext' = tnext
         /\ tpc' = [tpc EXCEPT ![m] = "list"]

\* RegisterTool, `if _, exists := r.tools[name]; exists`: the error of a
\* duplicate is logged as a warning and the next tool follows.
RegisterLookup(m) ==
    /\ ~procFatal
    /\ tpc[m] = "reg_lookup"
    /\ IF Registered(procTools, BuiltinTools[tnext[m]])
       THEN NextRegistration(m)
       ELSE /\ tpc' = [tpc EXCEPT ![m] = "reg_write"]
            /\ tnext' = tnext
    /\ RaceOutcome(ReadRaces(m))
    /\ UNCHANGED <<ttenant, tgot, procTools, lastUse>>
    /\ UNCHANGED <<mgrVars, notProcVars>>

\* RegisterTool, r.tools[name] = tool; r.schemas[name] = tool.Schema().
RegisterWrite(m) ==
    /\ ~procFatal
    /\ tpc[m] = "reg_write"
    /\ procTools' = MapPut(procTools, BuiltinTools[tnext[m]],
                           NewTool(BuiltinTools[tnext[m]], tgot[m]))
    /\ NextRegistration(m)
    /\ RaceOutcome(WriteRaces(m))
    /\ UNCHANGED <<ttenant, tgot, lastUse>>
    /\ UNCHANGED <<mgrVars, notProcVars>>

\* len(p.toolRegistry.ListTools()) of the debug log; NewMainOrchestrator.
TurnListTools(m) ==
    /\ ~procFatal
    /\ tpc[m] = "list"
    /\ tpc' = [tpc EXCEPT ![m] = "route"]
    /\ RaceOutcome(ReadRaces(m))
    /\ UNCHANGED <<ttenant, tgot, tnext, procTools, lastUse>>
    /\ UNCHANGED <<mgrVars, notProcVars>>

\* An operation issued on handles: by which turn, for which tenant, on what.
HandleUse(m, op, tool) ==
    [turn |-> m, tenant |-> ttenant[m], op |-> op, tool |-> tool, got |-> tgot[m],
     closed |-> IsClosed(tool.store) \/ IsClosed(tool.repo)]

\* orchestrator.Route: GetToolsForTenant lists the registry; the model
\* answers directly or asks for a tool, which ExecuteToolCall looks up with
\* GetTool and invokes.
TurnRoute(m) ==
    /\ ~procFatal
    /\ tpc[m] = "route"
    /\ \E call \in {"none"} \cup {BuiltinTools[i] : i \in 1..Len(BuiltinTools)} :
         IF call # "none" /\ Registered(procTools, call)
         THEN lastUse' = HandleUse(m, call, procTools[call])
         ELSE lastUse' = lastUse
    /\ tpc' = [tpc EXCEPT ![m] = "outbound"]
    /\ RaceOutcome(ReadRaces(m))
    /\ UNCHANGED <<ttenant, tgot, tnext, procTools>>
    /\ UNCHANGED <<mgrVars, notProcVars>>

\* repo.CreateMessage(ctx, outboundMessage) on the turn's own repository.
TurnOutbound(m) ==
    /\ ~procFatal
    /\ tpc[m] = "outbound"
    /\ lastUse' = HandleUse(m, "CreateMessage",
                            [store |-> NoHandle, llm |-> "", repo |-> tgot[m].repo])
    /\ tpc' = [tpc EXCEPT ![m] = "done"]
    /\ UNCHANGED <<ttenant, tgot, tnext, procTools, procFatal>>
    /\ UNCHANGED <<mgrVars, notProcVars>>

\* Bound on the ReloadTenants and Close calls made while turns run.
MaxAdminCalls == 1

\* An administrator reloads the tenants, or the server shuts the manager
\* down, while turns are in flight.
ProcReload == ~procFatal /\ mgrCalls < MaxAdminCalls /\ ReloadTenants
ProcClose == ~procFatal /\ mgrCalls < MaxAdminCalls /\ Close

NextProc ==
    \/ \E m \in Inbound : StartTurn(m)
    \/ \E m \in Inbound : TurnGetLLMProvider(m)
    \/ \E m \in Inbound : TurnGetVectorStore(m)
    \/ \E m \in Inbound : TurnGetRepository(m)
    \/ \E m \in Inbound : RegisterLookup(m)
    \/ \E m \in Inbound : RegisterWrite(m)
    \/ \E m \in Inbound : TurnListTools(m)
    \/ \E m \in Inbound : TurnRoute(m)
    \/ \E m \in Inbound : TurnOutbound(m)
    \/ ProcReload
    \/ ProcClose

SpecProc == InitProc /\ [][NextProc]_vars

\* A turn invoked one of the registered tools.
ToolInvoked == lastUse # Nil /\ lastUse.op # "CreateMessage"

\* C22: a memory or API tool invoked in a turn for tenant T works on the
\* vector store, LLM provider and repository the manager returned to that
\* turn, which are T's.
C22_ToolsUseTurnHandles ==
    ToolInvoked =>
       /\ lastUse.op = "upsert_item" =>
             /\ lastUse.tool.store = lastUse.got.store
             /\ lastUse.tool.llm = lastUse.tenant
             /\ handles[lastUse.tool.store].tenant = lastUse.tenant
       /\ lastUse.op = "call_api" =>
             /\ lastUse.tool.repo = lastUse.got.repo
             /\ handles[lastUse.tool.repo].tenant = lastUse.tenant

\* C23: no turn, and no tool registered with a handle, issues an operation
\* on a repository or vector store that ReloadTenants or Close has closed.
C23_NoUseAfterClose ==
    lastUse # Nil => ~lastUse.closed

\* C26: no turn is inside a statement on r.tools while another turn is
\* inside a statement that writes r.tools.
C26_RegistryAccessExclusive ==
    \A m \in Inbound : \A o \in Inbound \ {m} :
       ~(tpc[m] \in MapWritePcs /\ tpc[o] \in MapReadPcs \cup MapWritePcs)

(***************************************************************************)
(* The update_item tool (part_001 DBUpdateItemTool.Invoke) on one stored   *)
(* record, through UpdateByID of either store.  The invocation comes with  *)
(* a well-formed id of a record of the caller's tenant and user.           *)
(***************************************************************************)
\* Bound on the number of update_item invocations.
MaxUpdCalls == 2

\* The metadata column of the stored record (JSON object: key -> value).
MetadataSamples ==
    { [created_at |-> "2026-01-01T00:00:00Z"],
      [created_at |-> "2026-01-01T00:00:00Z", chunk_index |-> 0,
       when |-> "2026-01-05T09:00:00Z"],
      [created_at |-> "2026-01-01T00:00:00Z", source |-> "whatsapp",
       tags |-> <<"home">>] }

\* The vector Embed returns for a text; SQLFallbackStore keeps no embedding.
EmbeddingOf(txt) == <<"embedding", txt>>
NoEmbedding == <<"embedding", "NULL">>

\* The JSON values the model may put under the keys of "updates".
JSONArray(elems) == [t |-> "array", v |-> elems, frac |-> 0]
UpdateValues(key) ==
    IF key = "text" THEN {StrVal("call mom"), NumVal(5)}
    ELSE IF key = "when" THEN {StrVal("2026-02-02T10:00:00Z"), StrVal("tomorrow"), NumVal(5)}
    ELSE {JSONArray(<<StrVal("work")>>), JSONArray(<<StrVal("work"), NumVal(7)>>),
          StrVal("work")}

\* input["updates"]: any object over the keys text, when, tags.
UpdateInputs ==
    UNION { {f \in [ks -> UNION {UpdateValues(k) : k \in ks}] :
                \A k \in ks : f[k] \in UpdateValues(k)} :
            ks \in SUBSET {"text", "when", "tags"} }

\* time.Parse(time.RFC3339, whenStr) succeeds.
IsRFC3339(str) == str \in {"2026-02-02T10:00:00Z", "2026-01-05T09:00:00Z"}

\* llmProvider.Embed: an error, no vector, or one vector.
EmbedOutcomes == {"error", "empty", "ok"}

\* v, ok := updatesMap[key].(string) / .([]interface{})
HasString(input, key) == key \in DOMAIN input /\ input[key].t = "string"
HasArray(input, key) == key \in DOMAIN input /\ input[key].t = "array"

\* The strings among the elements of tags.
RECURSIVE TagStrings(_)
TagStrings(elems) ==
    IF elems = << >> THEN << >>
    ELSE IF Head(elems).t = "string" THEN <<Head(elems).v>> \o TagStrings(Tail(elems))
    ELSE TagStrings(Tail(elems))

\* The metadata map Invoke builds: when, tags, and updated_at if either is
\* there.
BuiltMetadata(input) ==
    LET given == {k \in {"when", "tags"} :
                     IF k = "when" THEN HasString(input, k) ELSE HasArray(input, k)}
        keys == IF given = {} THEN {} ELSE given \cup {"updated_at"}
    IN  [k \in keys |-> IF k = "when" THEN input[k].v
                        ELSE IF k = "tags" THEN TagStrings(input[k].v)
                        ELSE "now"]

\* The updates map Invoke passes to UpdateByID, or the error it returns
\* before that.
BuildUpdates(input, embed) ==
    IF DOMAIN input = {} THEN [err |-> "no updates provided", updates |-> << >>]
    ELSE IF HasString(input, "text") /\ embed = "error"
    THEN [err |-> "failed to generate embedding", updates |-> << >>]
    ELSE IF HasString(input, "when") /\ ~IsRFC3339(input["when"].v)
    THEN [err |-> "invalid timestamp format", updates |-> << >>]
    ELSE LET md == BuiltMetadata(input)
             keys == (IF HasString(input, "text") THEN {"text"} ELSE {})
                     \cup (IF HasString(input, "text") /\ embed = "ok"
                           THEN {"embedding"} ELSE {})
                     \cup (IF DOMAIN md # {} THEN {"metadata"} ELSE {})
         IN  [err |-> "",
              updates |-> [k \in keys |->
                             IF k = "text" THEN input["text"].v
                             ELSE IF k = "embedding" THEN EmbeddingOf(input["text"].v)
                             ELSE md]]

\* UpdateByID, `metadata = $n`: the column becomes the supplied object.
SetMetadata(old, new) == new

\* The row after the UPDATE that UpdateByID builds from updates; the SQL
\* fallback ignores "embedding".
UpdatedRow(bk, row, updates) ==
    [text |-> IF "text" \in DOMAIN updates THEN updates["text"] ELSE row.text,
     kind |-> IF "kind" \in DOMAIN updates THEN updates["kind"] ELSE row.kind,
     embedding |-> IF "embedding" \in DOMAIN updates /\ bk = "pgvector"
                   THEN updates["embedding"] ELSE row.embedding,
     metadata |-> IF "metadata" \in DOMAIN updates
                  THEN SetMetadata(row.metadata, updates["metadata"])
                  ELSE row.metadata]

InitUpd ==
    /\ updBackend \in {"pgvector", "sql_fallback"}
    /\ \E md \in MetadataSamples :
          updRow = [text |-> "buy milk", kind |-> "task",
                    embedding |-> IF updBackend = "pgvector"
                                  THEN EmbeddingOf("buy milk") ELSE NoEmbedding,
                    metadata |-> md]
    /\ updLast = Nil
    /\ updCalls = 0
    /\ LoopIdle
    /\ MgrIdle
    /\ RlsIdle
    /\ MemIdle
    /\ RegIdle
    /\ RagIdle
    /\ ProcIdle

\* DBUpdateItemTool.Invoke: build the updates, call UpdateByID (whose
\* statement can fail), return the result.
InvokeUpdateItemTool ==
    /\ updCalls < MaxUpdCalls
    /\ updCalls' = updCalls + 1
    /\ \E input \in UpdateInputs, embed \in EmbedOutcomes, execFails \in BOOLEAN :
         LET b == BuildUpdates(input, embed)
             stmt == b.err = "" /\ DOMAIN b.updates # {}
         IN  /\ HasString(input, "text") \/ embed = "ok"   \* Embed runs for a text only
             /\ execFails => stmt
             /\ updRow' = IF stmt /\ ~execFails
                          THEN UpdatedRow(updBackend, updRow, b.updates) ELSE updRow
             /\ updLast' = [input |-> input, before |-> updRow,
                            err |-> IF execFails THEN "failed to update item" ELSE b.err]
    /\ UNCHANGED <<updBackend, notUpdVars>>

NextUpd == InvokeUpdateItemTool

SpecUpd == InitUpd /\ [][NextUpd]_vars

\* C29: an update_item invocation that succeeds and whose updates name only
\* when and/or tags leaves text, kind and embedding of the record as they
\* were, and every metadata key other than when, tags (and the updated_at
\* stamp) with the value it had.
C29_PartialUpdateKeepsRest ==
    (/\ updLast # Nil
     /\ updLast.err = ""
     /\ DOMAIN updLast.input # {}
     /\ DOMAIN updLast.input \subseteq {"when", "tags"}) =>
       /\ updRow.text = updLast.before.text
       /\ updRow.kind = updLast.before.kind
       /\ updRow.embedding = updLast.before.embedding
       /\ \A k \in DOMAIN updLast.before.metadata \ {"when", "tags", "updated_at"} :
             /\ k \in DOMAIN updRow.metadata
             /\ updRow.metadata[k] = updLast.before.metadata[k]
====
